---- MODULE Spec2Model ----
(***************************************************************************)
(* Verification model of the YouTube channel scraper actor:                *)
(*   - the error classifier and retry policy (src/src/retryHandler.js),    *)
(*   - the crawl loop with its retry wrapper and page handler              *)
(*     (src/test_csv.js, src/src/handlePageFunction.js),                   *)
(*   - the adaptive rate limiter (src/unnamed/part_008).                   *)
(***************************************************************************)
EXTENDS Integers, Sequences, FiniteSets, TLC

VARIABLES
    \* ---- retry policy, applied as pure functions ----
    pc,          \* position of the retry-policy evaluation
    error,       \* the error's message, a sequence of text fragments
    response,    \* the HTTP response: NoResponse or a status code
    attempt,     \* the attempt number handed to shouldRetry
    errorType,   \* result of classifyError
    decision,    \* result of shouldRetry
    \* ---- crawl ----
    queue,       \* the request queue (head is fetched next)
    seenKeys,    \* uniqueKeys the request queue has ever accepted
    workers,     \* worker slot -> Idle or the attempt it runs
    timers,      \* pending setTimeout callbacks of withRetryHandler
    dataset,     \* records pushed by Actor.pushData
    failedLog,   \* the FAILED_REQUESTS value of the key-value store
    processedCount, \* the orchestrator's progress counter
    recorded,    \* the last outcome handed to the rate-limit recorder
    crawlDone,   \* crawler.run() has resolved
    \* ---- adaptive rate limiter ----
    rl,          \* the AdaptiveRateLimiter instance
    sleepers,    \* caller -> the setTimeout it awaits in waitForNextRequest
    rlTrace,     \* currentDelay after construction/reset and after each
                 \* recordRequest since, with the call's rateLimited flag
    \* ---- input handling and URL helpers, applied as pure functions ----
    input,       \* the argument of the function under evaluation
    output       \* its result, << >> before the call

vars == <<pc, error, response, attempt, errorType, decision,
          queue, seenKeys, workers, timers, dataset, failedLog,
          processedCount, recorded, crawlDone, rl, sleepers, rlTrace,
          input, output>>

retryVars == <<pc, error, response, attempt, errorType, decision>>
crawlVars == <<queue, seenKeys, workers, timers, dataset, failedLog,
               processedCount, recorded, crawlDone>>
rateVars  == <<rl, sleepers, rlTrace>>
callVars  == <<input, output>>

(***************************************************************************)
(* Bounds of the model.                                                    *)
(***************************************************************************)
MaxFragments == 2     \* fragments per error message
MaxAttempt   == 6     \* largest attempt number handed to shouldRetry
JitterSteps  == 10    \* Math.random() is drawn from {0/J, ..., (J-1)/J}

Min(a, b) == IF a <= b THEN a ELSE b
Max(a, b) == IF a >= b THEN a ELSE b

RECURSIVE Pow(_, _)
Pow(b, e) == IF e = 0 THEN 1 ELSE b * Pow(b, e - 1)

(***************************************************************************)
(* Error messages.  A message is a sequence of text fragments; a fragment  *)
(* stands for a piece of text as it appears in errors raised by the page   *)
(* handler, by puppeteer or by the network stack.  String.includes on the  *)
(* lower-cased message finds a keyword iff one fragment, lower-cased,      *)
(* contains it.                                                            *)
(***************************************************************************)
CAPTCHA_DETECTED == "Got captcha, page will be retried."
INVALID_RESPONSE == "Invalid response status from YouTube"

Fragments ==
    { CAPTCHA_DETECTED, INVALID_RESPONSE, "CAPTCHA", "Consent", "consent",
      "Navigation timeout", "Timeout", "net::ERR", "Network", "connection",
      "Too Many Requests", "rate limit", "Not Found", "failed" }

toLowerCase(f) ==
    CASE f = CAPTCHA_DETECTED     -> "got captcha, page will be retried."
      [] f = INVALID_RESPONSE     -> "invalid response status from youtube"
      [] f = "CAPTCHA"            -> "captcha"
      [] f = "Consent"            -> "consent"
      [] f = "Navigation timeout" -> "navigation timeout"
      [] f = "Timeout"            -> "timeout"
      [] f = "net::ERR"           -> "net::err"
      [] f = "Network"            -> "network"
      [] f = "Too Many Requests"  -> "too many requests"
      [] f = "Not Found"          -> "not found"
      [] OTHER                    -> f

\* The keywords of classifyError that occur inside a lower-cased fragment.
KeywordsIn(lf) ==
    CASE lf = "got captcha, page will be retried." -> {"captcha"}
      [] lf = "captcha"            -> {"captcha"}
      [] lf = "consent"            -> {"consent"}
      [] lf = "navigation timeout" -> {"navigation timeout", "timeout"}
      [] lf = "timeout"            -> {"timeout"}
      [] lf = "net::err"           -> {"net::"}
      [] lf = "network"            -> {"network"}
      [] lf = "connection"         -> {"connection"}
      [] lf = "too many requests"  -> {"too many requests"}
      [] lf = "rate limit"         -> {"rate limit"}
      [] OTHER                     -> {}

\* message.includes(kw), message already lower-cased
includes(message, kw) ==
    \E i \in 1..Len(message) : kw \in KeywordsIn(message[i])

lowered(message) == [i \in 1..Len(message) |-> toLowerCase(message[i])]

Messages == UNION { [1..n -> Fragments] : n \in 0..MaxFragments }

(***************************************************************************)
(* HTTP responses.                                                         *)
(***************************************************************************)
\* A response is absent (undefined) or carries a status code.
NoResponse == [present |-> FALSE, status |-> 0]

Response(code) == [present |-> TRUE, status |-> code]

StatusCodes == {200, 403, 404, 408, 429, 500, 503}

Responses == {NoResponse} \cup { Response(c) : c \in StatusCodes }

\* response?.status?.() || 0
statusOf(resp) == IF resp.present THEN resp.status ELSE 0

statusText(code) ==
    CASE code = 404 -> "Not Found"
      [] code = 408 -> "Timeout"
      [] code = 429 -> "Too Many Requests"
      [] OTHER      -> "failed"

(***************************************************************************)
(* retryHandler.js                                                         *)
(***************************************************************************)
ERROR_TYPES ==
    {"RATE_LIMIT", "TIMEOUT", "NETWORK", "CAPTCHA", "NOT_FOUND", "CONSENT",
     "TEMPORARY", "PERMANENT"}

\* backoffFactor is kept as a fraction n/d (1.5 = 3/2).
RETRY_CONFIG ==
    [t \in {"RATE_LIMIT", "TIMEOUT", "NETWORK", "CAPTCHA", "NOT_FOUND",
            "CONSENT", "TEMPORARY"} |->
        CASE t = "RATE_LIMIT" -> [maxRetries |-> 5, initialDelay |-> 5000,
                                  maxDelay |-> 60000, backoffFactor |-> [n |-> 2, d |-> 1]]
          [] t = "TIMEOUT"    -> [maxRetries |-> 3, initialDelay |-> 2000,
                                  maxDelay |-> 10000, backoffFactor |-> [n |-> 3, d |-> 2]]
          [] t = "NETWORK"    -> [maxRetries |-> 3, initialDelay |-> 1000,
                                  maxDelay |-> 5000, backoffFactor |-> [n |-> 3, d |-> 2]]
          [] t = "CAPTCHA"    -> [maxRetries |-> 0, initialDelay |-> 0,
                                  maxDelay |-> 0, backoffFactor |-> [n |-> 0, d |-> 1]]
          [] t = "NOT_FOUND"  -> [maxRetries |-> 0, initialDelay |-> 0,
                                  maxDelay |-> 0, backoffFactor |-> [n |-> 0, d |-> 1]]
          [] t = "CONSENT"    -> [maxRetries |-> 1, initialDelay |-> 1000,
                                  maxDelay |-> 1000, backoffFactor |-> [n |-> 1, d |-> 1]]
          [] t = "TEMPORARY"  -> [maxRetries |-> 2, initialDelay |-> 3000,
                                  maxDelay |-> 10000, backoffFactor |-> [n |-> 2, d |-> 1]]]

\* A classifier that consults the message before the status code.
classifyError_messageFirst(message, resp) ==
    LET m == lowered(message)
        statusCode == statusOf(resp)
    IN  CASE includes(m, "captcha") -> "CAPTCHA"
          [] includes(m, "consent") -> "CONSENT"
          [] includes(m, "timeout") \/ includes(m, "navigation timeout") -> "TIMEOUT"
          [] includes(m, "net::") \/ includes(m, "network")
                \/ includes(m, "connection") -> "NETWORK"
          [] includes(m, "too many requests") \/ includes(m, "rate limit") -> "RATE_LIMIT"
          [] statusCode = 429 -> "RATE_LIMIT"
          [] statusCode = 404 -> "NOT_FOUND"
          [] OTHER -> "TEMPORARY"

classifyError(message, resp) ==
    LET m == lowered(message)
        statusCode == statusOf(resp)
    IN  IF statusCode = 429 THEN "RATE_LIMIT"
        ELSE IF statusCode = 404 THEN "NOT_FOUND"
        ELSE IF statusCode >= 500 THEN "TEMPORARY"
        ELSE IF includes(m, "captcha") THEN "CAPTCHA"
        ELSE IF includes(m, "consent") THEN "CONSENT"
        ELSE IF includes(m, "timeout") \/ includes(m, "navigation timeout")
             THEN "TIMEOUT"
        ELSE IF includes(m, "net::") \/ includes(m, "network")
                \/ includes(m, "connection")
             THEN "NETWORK"
        ELSE IF includes(m, "too many requests") \/ includes(m, "rate limit")
             THEN "RATE_LIMIT"
        ELSE "TEMPORARY"

\* A delay with symmetric jitter (+-15%) instead of positive jitter.
calculateRetryDelay_symmetric(att, config, rnd) ==
    LET fn  == Pow(config.backoffFactor.n, att)
        fd  == Pow(config.backoffFactor.d, att)
        capped == config.initialDelay * fn > config.maxDelay * fd
        num == IF capped THEN config.maxDelay ELSE config.initialDelay * fn
        den == IF capped THEN 1 ELSE fd
    IN  (num * (20 * JitterSteps + 3 * (2 * rnd - JitterSteps)))
            \div (den * 20 * JitterSteps)

\* rnd stands for Math.random() = rnd / JitterSteps.  The delay
\* min(initialDelay * backoffFactor^attempt, maxDelay) is the fraction
\* num/den; floor(delay + random * 0.3 * delay) is computed exactly as
\* floor(num * (10 J + 3 rnd) / (den * 10 J)).
calculateRetryDelay(att, config, rnd) ==
    LET fn  == Pow(config.backoffFactor.n, att)
        fd  == Pow(config.backoffFactor.d, att)
        capped == config.initialDelay * fn > config.maxDelay * fd
        num == IF capped THEN config.maxDelay ELSE config.initialDelay * fn
        den == IF capped THEN 1 ELSE fd
    IN  (num * (10 * JitterSteps + 3 * rnd)) \div (den * 10 * JitterSteps)

\* A retry decision that allows one retry too many.
shouldRetry_offByOne(message, resp, att, rnd) ==
    LET type == classifyError(message, resp)
    IN  IF type \notin DOMAIN RETRY_CONFIG \/ att > RETRY_CONFIG[type].maxRetries
        THEN [retry |-> FALSE, errorType |-> type, delay |-> 0, attempt |-> att,
              maxRetries |-> 0,
              reason |-> IF type \notin DOMAIN RETRY_CONFIG
                         THEN "No retry config" ELSE "Max retries reached"]
        ELSE [retry |-> TRUE, errorType |-> type,
              delay |-> calculateRetryDelay(att, RETRY_CONFIG[type], rnd),
              attempt |-> att + 1, maxRetries |-> RETRY_CONFIG[type].maxRetries,
              reason |-> ""]

\* The fields a JavaScript result leaves out (delay, attempt, maxRetries
\* of a refusal; reason of a retry) are 0 / "" here.
shouldRetry(message, resp, att, rnd) ==
    LET type == classifyError(message, resp)
    IN  IF type \notin DOMAIN RETRY_CONFIG \/ att >= RETRY_CONFIG[type].maxRetries
        THEN [retry |-> FALSE, errorType |-> type, delay |-> 0, attempt |-> att,
              maxRetries |-> 0,
              reason |-> IF type \notin DOMAIN RETRY_CONFIG
                         THEN "No retry config" ELSE "Max retries reached"]
        ELSE [retry |-> TRUE, errorType |-> type,
              delay |-> calculateRetryDelay(att, RETRY_CONFIG[type], rnd),
              attempt |-> att + 1, maxRetries |-> RETRY_CONFIG[type].maxRetries,
              reason |-> ""]

(***************************************************************************)
(* The retry policy applied to arbitrary inputs.                           *)
(***************************************************************************)
NoDecision == [retry |-> FALSE, errorType |-> "", delay |-> 0, attempt |-> 0,
               maxRetries |-> 0, reason |-> ""]

CrawlUnused ==
    /\ queue = <<>> /\ seenKeys = {} /\ workers = <<>> /\ timers = {}
    /\ dataset = <<>> /\ failedLog = <<>> /\ processedCount = 0
    /\ recorded = << >>
    /\ crawlDone = FALSE

RateUnused == rl = [currentDelay |-> 0] /\ sleepers = <<>> /\ rlTrace = <<>>

CallUnused == input = << >> /\ output = << >>

InitRetry ==
    /\ pc = "input"
    /\ error \in Messages
    /\ response \in Responses
    /\ attempt \in 0..MaxAttempt
    /\ errorType = ""
    /\ decision = NoDecision
    /\ CrawlUnused
    /\ RateUnused
    /\ CallUnused

Classify ==
    /\ pc = "input"
    /\ errorType' = classifyError(error, response)
    /\ pc' = "classified"
    /\ UNCHANGED <<error, response, attempt, decision, crawlVars, rateVars, callVars>>

Decide ==
    /\ pc = "classified"
    /\ \E rnd \in 0..(JitterSteps - 1) :
          decision' = shouldRetry(error, response, attempt, rnd)
    /\ pc' = "decided"
    /\ UNCHANGED <<error, response, attempt, errorType, crawlVars, rateVars, callVars>>

\* calculateRetryDelay called on its own, for any attempt number
Delay ==
    /\ pc = "classified"
    /\ \E rnd \in 0..(JitterSteps - 1) :
          decision' = [NoDecision EXCEPT
                          !.errorType = errorType,
                          !.attempt = attempt,
                          !.delay = calculateRetryDelay(attempt, RETRY_CONFIG[errorType], rnd)]
    /\ pc' = "delayed"
    /\ UNCHANGED <<error, response, attempt, errorType, crawlVars, rateVars, callVars>>

NextRetry == Classify \/ Decide \/ Delay

SpecRetry == InitRetry /\ [][NextRetry]_vars

(***************************************************************************)
(* Claims about the retry policy (checked under SpecRetry).                *)
(***************************************************************************)
\* The category of the first rule that matches, in the order the rules are
\* listed; netWords are the message keywords of the NETWORK rule.
C1_FirstMatch(message, resp, netWords) ==
    LET m == lowered(message)
        s == statusOf(resp)
        rules == << [hit |-> s = 429, cat |-> "RATE_LIMIT"],
                    [hit |-> s = 404, cat |-> "NOT_FOUND"],
                    [hit |-> s >= 500, cat |-> "TEMPORARY"],
                    [hit |-> includes(m, "captcha"), cat |-> "CAPTCHA"],
                    [hit |-> includes(m, "consent"), cat |-> "CONSENT"],
                    [hit |-> includes(m, "timeout"), cat |-> "TIMEOUT"],
                    [hit |-> \E k \in netWords : includes(m, k), cat |-> "NETWORK"],
                    [hit |-> includes(m, "too many requests") \/ includes(m, "rate limit"),
                     cat |-> "RATE_LIMIT"],
                    [hit |-> TRUE, cat |-> "TEMPORARY"] >>
        first == CHOOSE i \in 1..Len(rules) :
                    rules[i].hit /\ \A j \in 1..(i - 1) : ~rules[j].hit
    IN  rules[first].cat

\* C1 (as stated): classifyError returns the category of the first matching
\* rule in the order 429, 404, >=500, 'captcha', 'consent', 'timeout',
\* 'network'/'connection', 'too many requests'/'rate limit', else TEMPORARY,
\* for every status code and message.
C1_Original ==
    pc # "input" => errorType = C1_FirstMatch(error, response, {"network", "connection"})

\* C1 (amended): the same first-match order, where the NETWORK rule matches
\* 'net::' as well as 'network' and 'connection'; a status-code rule
\* (429, 404, >= 500) always wins over every message rule.
C1_FirstMatchWithNetPrefix ==
    pc # "input" =>
        /\ errorType = C1_FirstMatch(error, response, {"net::", "network", "connection"})
        /\ statusOf(response) = 429 => errorType = "RATE_LIMIT"
        /\ statusOf(response) = 404 => errorType = "NOT_FOUND"
        /\ statusOf(response) >= 500 => errorType = "TEMPORARY"

C1_Witness ==
    /\ pc = "classified"
    /\ statusOf(response) = 429
    /\ includes(lowered(error), "captcha")
    /\ errorType = "RATE_LIMIT"

C2_MaxRetries(t) ==
    CASE t = "RATE_LIMIT" -> 5
      [] t = "TIMEOUT"    -> 3
      [] t = "NETWORK"    -> 3
      [] t = "CONSENT"    -> 1
      [] t = "TEMPORARY"  -> 2
      [] t = "CAPTCHA"    -> 0
      [] t = "NOT_FOUND"  -> 0

\* C2: shouldRetry answers retry = TRUE exactly when the attempt number is
\* below the maximum retries of the error's category (5, 3, 3, 1, 2, 0, 0);
\* a 404 response and an error of category CAPTCHA are never retried.
C2_RetryIffBelowMax ==
    pc = "decided" =>
        /\ decision.errorType = errorType
        /\ decision.retry <=> attempt < C2_MaxRetries(errorType)
        /\ statusOf(response) = 404 => ~decision.retry
        /\ errorType = "CAPTCHA" => ~decision.retry

C2_Witness ==
    /\ pc = "decided"
    /\ errorType = "RATE_LIMIT" /\ attempt = 4 /\ decision.retry

\* base <= d < 1.3 * base, where base = min(initialDelay * factor^att, maxDelay)
C3_InJitterBand(d, config, att) ==
    LET n == config.initialDelay * Pow(config.backoffFactor.n, att)
        q == Pow(config.backoffFactor.d, att)
    IN  IF n <= config.maxDelay * q
        THEN d * q >= n /\ 10 * d * q < 13 * n
        ELSE d >= config.maxDelay /\ 10 * d < 13 * config.maxDelay

\* C3: for every retryable category and attempt number the delay d of
\* calculateRetryDelay satisfies base <= d < 1.3 * base; the first retry
\* after a 429 waits within [5000, 6500) ms, and no delay exceeds 1.3 times
\* the category's maxDelay.
C3_DelayWithinJitterBand ==
    /\ (pc = "delayed" \/ (pc = "decided" /\ decision.retry)) =>
          (RETRY_CONFIG[errorType].maxRetries > 0 =>
              /\ C3_InJitterBand(decision.delay, RETRY_CONFIG[errorType], attempt)
              /\ 10 * decision.delay <= 13 * RETRY_CONFIG[errorType].maxDelay)
    /\ (pc = "decided" /\ statusOf(response) = 429 /\ attempt = 0) =>
          (decision.retry /\ decision.delay >= 5000 /\ decision.delay < 6500)

C3_Witness ==
    /\ pc = "decided" /\ statusOf(response) = 429 /\ attempt = 0
    /\ decision.retry /\ decision.delay > 6000

(***************************************************************************)
(* The crawl: request queue, worker pool, page handler, retry wrapper.     *)
(***************************************************************************)
NumUrls        == 2   \* channel URLs handed to the crawler
MaxConcurrency == 2   \* worker slots of the pool (the maxConcurrency option)

\* main: maxRequestRetries = 3 unless the input sets it
maxRequestRetries == 3

\* The text of the i-th channel URL, as a sequence of tokens.
ChannelUrl(i) == <<"https://www.youtube.com/@channel", ToString(i)>>

Urls    == { ChannelUrl(i) : i \in 1..NumUrls }
Workers == 1..MaxConcurrency

CrawlJitterDraws == 1  \* values Math.random() takes in the crawl

\* Jitter draws used in the crawl, spread over Math.random()'s range.
CrawlJitter ==
    { ((i - 1) * (JitterSteps - 1)) \div Max(1, CrawlJitterDraws - 1) :
        i \in 1..CrawlJitterDraws }

\* What a worker meets when it opens a channel page, as far as the page
\* handler looks: it checks for a captcha first, then the status, then the
\* consent dialog, then extracts.  A check the handler never reaches is
\* left at its default.
Pages ==
    { p \in [captcha  : BOOLEAN,                     \* checkForCaptcha(page)
             response : {Response(c) : c \in {200, 404, 429, 503}},
             consent  : BOOLEAN,                     \* handleConsentDialog(page)
             fault    : {"", "Navigation timeout"}] : \* raised while extracting
        /\ (p.captcha \/ p.response.status >= 400) => (~p.consent /\ p.fault = "")
        /\ p.consent => p.fault = "" }

\* prepareChannelUrls: { url, userData: { channelUrl } }; the queue derives
\* the uniqueKey from the url.
InitialRequest(u) ==
    [url |-> u, retryCount |-> 0, uniqueKey |-> u,
     userData |-> [lastErrorType |-> "", retryAt |-> 0]]

\* Outcome of the page handler: whether it returned normally, whether it
\* pushed a record, and the message of the error it threw.
handlePageFunction(page) ==
    IF page.captcha
    THEN [returned |-> FALSE, pushed |-> FALSE, message |-> <<CAPTCHA_DETECTED>>]
    ELSE IF page.response.status >= 400
    THEN [returned |-> FALSE, pushed |-> FALSE,
          message |-> <<INVALID_RESPONSE, statusText(page.response.status)>>]
    ELSE IF page.consent
    THEN [returned |-> TRUE, pushed |-> FALSE, message |-> <<>>]
    ELSE IF page.fault # ""
    THEN [returned |-> FALSE, pushed |-> FALSE, message |-> <<page.fault>>]
    ELSE [returned |-> TRUE, pushed |-> TRUE, message |-> <<>>]

\* The retry request, as a sequence of length 0 (null) or 1.  retryAt is
\* kept relative to Date.now() at the time of the failure.
handleRequestRetry(request, message, resp, rnd) ==
    LET d == shouldRetry(message, resp, request.retryCount, rnd)
    IN  IF d.retry
        THEN << [url |-> request.url,
                 retryCount |-> d.attempt,
                 uniqueKey |-> request.url \o <<"-retry-", ToString(d.attempt)>>,
                 userData |-> [lastErrorType |-> d.errorType, retryAt |-> d.delay]] >>
        ELSE << >>

\* retryHandler.js imports only `log` from 'apify': the name Actor is not
\* bound in the module, so Actor.openKeyValueStore() raises a
\* ReferenceError inside logFailedRequest's try block.
ActorIsBound == FALSE

\* The FAILED_REQUESTS value after logFailedRequest(request, error).
logFailedRequest(log, request, message) ==
    LET failedRequest == [url |-> request.url,
                          errorType |-> classifyError(message, NoResponse),
                          attempts |-> request.retryCount + 1]
    IN  IF ActorIsBound THEN Append(log, failedRequest) ELSE log

\* A wrapper whose catch block lets the error escape to the crawler.
withRetryHandler_rethrows(request, resp, outcome, rnd) ==
    IF outcome.returned
    THEN [retry |-> << >>, delay |-> 0, logFailure |-> FALSE, thrown |-> FALSE]
    ELSE LET retryRequest == handleRequestRetry(request, outcome.message, resp, rnd)
         IN  IF retryRequest # << >>
             THEN [retry |-> retryRequest, delay |-> retryRequest[1].userData.retryAt,
                   logFailure |-> FALSE, thrown |-> TRUE]
             ELSE [retry |-> << >>, delay |-> 0, logFailure |-> TRUE, thrown |-> TRUE]

\* What the wrapper does once the wrapped handler has settled with
\* `outcome`: the retry it schedules with setTimeout and the delay of the
\* timer, whether it logs a final failure, and whether an error escapes.
\* (userData.retryAt is an ISO date string, hence truthy.)
withRetryHandler(request, resp, outcome, rnd) ==
    IF outcome.returned
    THEN [retry |-> << >>, delay |-> 0, logFailure |-> FALSE, thrown |-> FALSE]
    ELSE LET retryRequest == handleRequestRetry(request, outcome.message, resp, rnd)
         IN  IF retryRequest # << >>
             THEN [retry |-> retryRequest, delay |-> retryRequest[1].userData.retryAt,
                   logFailure |-> FALSE, thrown |-> FALSE]
             ELSE [retry |-> << >>, delay |-> 0, logFailure |-> TRUE, thrown |-> FALSE]

\* The recorder called at the end of the try block instead of the finally
\* block: a failed attempt records nothing.
recordRateLimit_inTryBlock(success, statusCode) ==
    IF success THEN << [success |-> success, rateLimited |-> statusCode = 429] >> ELSE << >>

\* The arguments of the recorder's call in the orchestrator's finally block.
recordRateLimit(success, statusCode) ==
    << [success |-> success, rateLimited |-> statusCode = 429] >>

RetryUnused ==
    /\ pc = "crawl" /\ error = <<>> /\ response = NoResponse /\ attempt = 0
    /\ errorType = "" /\ decision = NoDecision

InitCrawl ==
    /\ queue = [i \in 1..NumUrls |-> InitialRequest(ChannelUrl(i))]
    /\ seenKeys = Urls
    /\ workers = [w \in Workers |-> << >>]
    /\ timers = {}
    /\ dataset = <<>>
    /\ failedLog = <<>>
    /\ processedCount = 0
    /\ recorded = << >>
    /\ crawlDone = FALSE
    /\ RetryUnused
    /\ RateUnused
    /\ CallUnused

\* A free worker fetches the next request and opens its page.
StartAttempt(w) ==
    /\ ~crawlDone
    /\ workers[w] = << >>
    /\ queue # << >>
    /\ \E page \in Pages :
          workers' = [workers EXCEPT ![w] = << [request |-> Head(queue), page |-> page] >>]
    /\ queue' = Tail(queue)
    /\ UNCHANGED <<seenKeys, timers, dataset, failedLog, processedCount, recorded,
                   crawlDone, retryVars, rateVars, callVars>>

\* The request handler of the crawler: withRetryHandler around the
\* orchestrator's handler around handlePageFunction.  When an error escapes
\* the wrapper the crawler reclaims the request itself (retryCount + 1,
\* up to maxRequestRetries).
RunHandler(w) ==
    /\ workers[w] # << >>
    /\ \E rnd \in CrawlJitter :
        LET request == workers[w][1].request
            page    == workers[w][1].page
            outcome == handlePageFunction(page)
            wrapped == withRetryHandler(request, page.response, outcome, rnd)
            reclaim == wrapped.thrown /\ request.retryCount < maxRequestRetries
        IN  /\ dataset' = IF outcome.pushed THEN Append(dataset, request.url) ELSE dataset
            /\ processedCount' = processedCount + (IF outcome.returned THEN 1 ELSE 0)
            /\ recorded' = recordRateLimit(outcome.returned, page.response.status)
            /\ timers' = IF wrapped.retry # << >>
                         THEN timers \cup {[request |-> wrapped.retry[1],
                                            delay |-> wrapped.delay,
                                            remaining |-> wrapped.delay]}
                         ELSE timers
            /\ failedLog' = IF wrapped.logFailure
                            THEN logFailedRequest(failedLog, request, outcome.message)
                            ELSE failedLog
            /\ queue' = IF reclaim
                        THEN Append(queue, [request EXCEPT !.retryCount = @ + 1])
                        ELSE queue
    /\ workers' = [workers EXCEPT ![w] = << >>]
    /\ UNCHANGED <<seenKeys, crawlDone, retryVars, rateVars, callVars>>

\* Time passes until the next timer is due.
AdvanceTime ==
    /\ timers # {}
    /\ \A t \in timers : t.remaining > 0
    /\ LET step == CHOOSE m \in {t.remaining : t \in timers} :
                       \A t \in timers : m <= t.remaining
       IN  timers' = { [t EXCEPT !.remaining = @ - step] : t \in timers }
    /\ UNCHANGED <<queue, seenKeys, workers, dataset, failedLog, processedCount,
                   recorded, crawlDone, retryVars, rateVars, callVars>>

\* The setTimeout callback: requestQueue.addRequest(retryRequest, { forefront: true });
\* the queue drops a request whose uniqueKey it has already seen.
TimerFire(t) ==
    /\ t \in timers
    /\ t.remaining = 0
    /\ timers' = timers \ {t}
    /\ IF t.request.uniqueKey \in seenKeys
       THEN UNCHANGED <<queue, seenKeys>>
       ELSE /\ queue' = <<t.request>> \o queue
            /\ seenKeys' = seenKeys \cup {t.request.uniqueKey}
    /\ UNCHANGED <<workers, dataset, failedLog, processedCount, recorded, crawlDone,
                   retryVars, rateVars, callVars>>

\* crawler.run() resolves once the queue is empty and no handler runs;
\* pending timers do not keep the crawler running.
CrawlerFinish ==
    /\ ~crawlDone
    /\ queue = << >>
    /\ \A w \in Workers : workers[w] = << >>
    /\ crawlDone' = TRUE
    /\ UNCHANGED <<queue, seenKeys, workers, timers, dataset, failedLog, processedCount,
                   recorded, retryVars, rateVars, callVars>>

NextCrawl ==
    \/ \E w \in Workers : StartAttempt(w)
    \/ \E w \in Workers : RunHandler(w)
    \/ AdvanceTime
    \/ \E t \in timers : TimerFire(t)
    \/ CrawlerFinish

SpecCrawl == InitCrawl /\ [][NextCrawl]_vars

(***************************************************************************)
(* Claims about the crawl (checked under SpecCrawl).                       *)
(***************************************************************************)
\* Worker w's request handler returns in this step.
HandlerReturns(w) == workers[w] # << >> /\ workers'[w] = << >>

AttemptsInFlight(u) ==
    Cardinality({ w \in Workers : workers[w] # << >> /\ workers[w][1].request.url = u })

QueuedFor(u) == Cardinality({ i \in 1..Len(queue) : queue[i].url = u })

TimersFor(u) == Cardinality({ t \in timers : t.request.url = u })

\* C4: whenever the page handler detects a CAPTCHA on an attempt, whatever
\* the status of the response, the identifier is not re-enqueued (no retry
\* is scheduled), a terminal-failure entry tagged CAPTCHA is written to the
\* failed-requests log, and no record is pushed for that attempt.
C4_CaptchaIsTerminalAndLogged ==
    [][\A w \in Workers :
          (HandlerReturns(w) /\ workers[w][1].page.captcha) =>
              /\ timers' = timers
              /\ queue' = queue
              /\ dataset' = dataset
              /\ Len(failedLog') = Len(failedLog) + 1
              /\ failedLog'[Len(failedLog')].url = workers[w][1].request.url
              /\ failedLog'[Len(failedLog')].errorType = "CAPTCHA"]_vars

\* C5: every failed attempt is followed by exactly one of (a) a further
\* attempt of the same identifier after its backoff delay -- the scheduled
\* re-enqueue is not lost when the crawler runs out of other work -- or
\* (b) a terminal-failure record (url, the category the retry decision used,
\* attempt count) appended to FAILED_REQUESTS.
C5_FailedAttemptRetriedOrLogged ==
    /\ [][\A w \in Workers :
            (HandlerReturns(w) /\ ~handlePageFunction(workers[w][1].page).returned) =>
                LET request == workers[w][1].request
                    page    == workers[w][1].page
                    type    == classifyError(handlePageFunction(page).message, page.response)
                    scheduled == \E t \in timers' \ timers :
                                    /\ t.request.url = request.url
                                    /\ t.request.retryCount = request.retryCount + 1
                    logged == /\ Len(failedLog') = Len(failedLog) + 1
                              /\ failedLog'[Len(failedLog')] =
                                    [url |-> request.url, errorType |-> type,
                                     attempts |-> request.retryCount + 1]
                IN  (scheduled /\ failedLog' = failedLog) \/ (logged /\ timers' = timers)]_vars
    /\ [](crawlDone => (timers = {} /\ queue = << >>))

C7_SuccessHasRecord ==
    [][\A w \in Workers :
          (HandlerReturns(w) /\ processedCount' = processedCount + 1) =>
              (recorded'[1].success
               /\ dataset' = Append(dataset, workers[w][1].request.url))]_vars

(***************************************************************************)
(* The adaptive rate limiter (AdaptiveRateLimiter).  Delays are kept in    *)
(* ticks of 1/TicksPerMs millisecond, products rounded down to a tick;     *)
(* instants are kept relative to the present, in whole milliseconds.       *)
(***************************************************************************)
MaxRecords  == 3        \* recordRequest calls between construction/resets
NumCallers  == 1        \* concurrent callers of waitForNextRequest
TicksPerMs  == 100000   \* resolution of a delay value

Callers == 1..NumCallers

\* Response times handed to recordRequest: none measured, or a slow one.
ResponseTimes == {0, 6000}

\* Math.random() draws used for the wait jitter: both ends of its range.
WaitJitter == {0, JitterSteps - 1}

\* Date.now() - lastRequestTime when lastRequestTime is 0, and the value at
\* which the elapsed time saturates: longer than any delay of the model.
LongAgo == 16000

\* constructor: the options object; 0 stands for an option that is absent
\* or zero.  The second is the orchestrator's.
LimiterOptions ==
    { [minDelay |-> 0,     maxDelay |-> 0,     windowSize |-> 0],
      [minDelay |-> 1000,  maxDelay |-> 15000, windowSize |-> 100],
      [minDelay |-> 1000,  maxDelay |-> 8000,  windowSize |-> 2],
      [minDelay |-> 0,     maxDelay |-> 500,   windowSize |-> 0],
      [minDelay |-> -100,  maxDelay |-> 1000,  windowSize |-> 0] }

\* option || fallback
OrDefault(option, fallback) == IF option # 0 THEN option ELSE fallback

\* v * num / den, rounded down to a tick
Times(v, num, den) == (v \div den) * num + ((v % den) * num) \div den

\* Math.min(v * 2, cap)
DoubleUpTo(v, cap) == IF v >= cap - v THEN cap ELSE 2 * v

InitialMetrics ==
    [totalRequests |-> 0, successfulRequests |-> 0, rateLimitHits |-> 0,
     averageResponseTime |-> [sum |-> 0, count |-> 1],
     currentSuccessRate |-> [n |-> 1, d |-> 1]]

\* new AdaptiveRateLimiter(options)
AdaptiveRateLimiter(options) ==
    [minDelay          |-> OrDefault(options.minDelay, 1000) * TicksPerMs,
     maxDelay          |-> OrDefault(options.maxDelay, 10000) * TicksPerMs,
     targetSuccessRate |-> [n |-> 95, d |-> 100],
     windowSize        |-> OrDefault(options.windowSize, 100),
     adaptationRate    |-> [n |-> 1, d |-> 10],
     currentDelay      |-> OrDefault(options.minDelay, 1000) * TicksPerMs,
     requestHistory    |-> << >>,
     sinceLastRequest  |-> LongAgo,
     metrics           |-> InitialMetrics]

\* adaptDelay without the clamp of the response-time adjustment.
adaptDelay_unclamped(self, rateLimited) ==
    LET cur  == self.currentDelay
        rate == self.metrics.currentSuccessRate
        goal == self.targetSuccessRate
        a    == self.adaptationRate
        avg  == self.metrics.averageResponseTime
        bySuccess ==
            IF rateLimited
            THEN DoubleUpTo(cur, self.maxDelay)
            ELSE IF rate.n * goal.d < goal.n * rate.d
            THEN Min(Times(cur, a.d + a.n, a.d), self.maxDelay)
            ELSE IF cur > self.minDelay
            THEN Max(Times(cur, 2 * a.d - a.n, 2 * a.d), self.minDelay)
            ELSE cur
    IN  [self EXCEPT !.currentDelay =
            IF avg.sum > 5000 * avg.count
            THEN Times(bySuccess, 11, 10)
            ELSE bySuccess]

\* adaptDelay raising the delay by the gentle factor on a rate-limit hit.
adaptDelay_gentle(self, rateLimited) ==
    LET cur  == self.currentDelay
        rate == self.metrics.currentSuccessRate
        goal == self.targetSuccessRate
        a    == self.adaptationRate
        avg  == self.metrics.averageResponseTime
        bySuccess ==
            IF rateLimited \/ rate.n * goal.d < goal.n * rate.d
            THEN Min(Times(cur, a.d + a.n, a.d), self.maxDelay)
            ELSE IF cur > self.minDelay
            THEN Max(Times(cur, 2 * a.d - a.n, 2 * a.d), self.minDelay)
            ELSE cur
    IN  [self EXCEPT !.currentDelay =
            IF avg.sum > 5000 * avg.count
            THEN Min(Times(bySuccess, 11, 10), self.maxDelay)
            ELSE bySuccess]

\* adaptDelay looking at the success rate before the rateLimited flag.
adaptDelay_successRateFirst(self, rateLimited) ==
    LET cur  == self.currentDelay
        rate == self.metrics.currentSuccessRate
        goal == self.targetSuccessRate
        a    == self.adaptationRate
        avg  == self.metrics.averageResponseTime
        bySuccess ==
            IF rate.n * goal.d < goal.n * rate.d
            THEN Min(Times(cur, a.d + a.n, a.d), self.maxDelay)
            ELSE IF rateLimited
            THEN DoubleUpTo(cur, self.maxDelay)
            ELSE IF cur > self.minDelay
            THEN Max(Times(cur, 2 * a.d - a.n, 2 * a.d), self.minDelay)
            ELSE cur
    IN  [self EXCEPT !.currentDelay =
            IF avg.sum > 5000 * avg.count
            THEN Min(Times(bySuccess, 11, 10), self.maxDelay)
            ELSE bySuccess]

\* adaptDelay(rateLimited): the limiter after the call.
adaptDelay(self, rateLimited) ==
    LET cur  == self.currentDelay
        rate == self.metrics.currentSuccessRate
        goal == self.targetSuccessRate
        a    == self.adaptationRate
        avg  == self.metrics.averageResponseTime
        bySuccess ==
            IF rateLimited
            THEN DoubleUpTo(cur, self.maxDelay)
            ELSE IF rate.n * goal.d < goal.n * rate.d
            THEN Min(Times(cur, a.d + a.n, a.d), self.maxDelay)
            ELSE IF cur > self.minDelay
            THEN Max(Times(cur, 2 * a.d - a.n, 2 * a.d), self.minDelay)
            ELSE cur
    IN  [self EXCEPT !.currentDelay =
            IF avg.sum > 5000 * avg.count
            THEN Min(Times(bySuccess, 11, 10), self.maxDelay)
            ELSE bySuccess]

\* array.slice(-n)
slice(s, n) == SubSeq(s, Max(1, Len(s) - n + 1), Len(s))

RECURSIVE sumResponseTimes(_)
sumResponseTimes(history) ==
    IF history = << >> THEN 0
    ELSE Head(history).responseTime + sumResponseTimes(Tail(history))

\* recordRequest taking the success rate over the whole history window.
recordRequest_wholeHistory(self, success, responseTime, rateLimited) ==
    LET m       == self.metrics
        pushed  == Append(self.requestHistory,
                          [success |-> success, responseTime |-> responseTime,
                           rateLimited |-> rateLimited])
        history == IF Len(pushed) > self.windowSize THEN Tail(pushed) ELSE pushed
        recentRequests  == history
        recentSuccesses == Cardinality({ i \in DOMAIN recentRequests :
                                            recentRequests[i].success })
        timed == { i \in DOMAIN history : history[i].responseTime # 0 }
        metrics ==
            [totalRequests      |-> m.totalRequests + 1,
             successfulRequests |-> m.successfulRequests + (IF success THEN 1 ELSE 0),
             rateLimitHits      |-> m.rateLimitHits + (IF rateLimited THEN 1 ELSE 0),
             averageResponseTime |->
                 IF timed # {}
                 THEN [sum |-> sumResponseTimes(history), count |-> Cardinality(timed)]
                 ELSE m.averageResponseTime,
             currentSuccessRate |->
                 [n |-> recentSuccesses, d |-> Len(recentRequests)]]
    IN  adaptDelay([self EXCEPT !.requestHistory = history, !.metrics = metrics],
                   rateLimited)

\* recordRequest(success, responseTime, rateLimited): the limiter after
\* the call.  (The entry's timestamp is never read and is left out.)
recordRequest(self, success, responseTime, rateLimited) ==
    LET m       == self.metrics
        pushed  == Append(self.requestHistory,
                          [success |-> success, responseTime |-> responseTime,
                           rateLimited |-> rateLimited])
        history == IF Len(pushed) > self.windowSize THEN Tail(pushed) ELSE pushed
        recentRequests  == slice(history, 20)
        recentSuccesses == Cardinality({ i \in DOMAIN recentRequests :
                                            recentRequests[i].success })
        timed == { i \in DOMAIN history : history[i].responseTime # 0 }
        metrics ==
            [totalRequests      |-> m.totalRequests + 1,
             successfulRequests |-> m.successfulRequests + (IF success THEN 1 ELSE 0),
             rateLimitHits      |-> m.rateLimitHits + (IF rateLimited THEN 1 ELSE 0),
             averageResponseTime |->
                 IF timed # {}
                 THEN [sum |-> sumResponseTimes(history), count |-> Cardinality(timed)]
                 ELSE m.averageResponseTime,
             currentSuccessRate |->
                 [n |-> recentSuccesses, d |-> Len(recentRequests)]]
    IN  adaptDelay([self EXCEPT !.requestHistory = history, !.metrics = metrics],
                   rateLimited)

\* reset()
reset(self) ==
    [self EXCEPT !.currentDelay = self.minDelay,
                 !.requestHistory = << >>,
                 !.sinceLastRequest = LongAgo,
                 !.metrics = InitialMetrics]

\* waitForNextRequest: remainingDelay, in ticks
remainingDelay(self) == self.currentDelay - self.sinceLastRequest * TicksPerMs

\* waitForNextRequest: actualDelay for Math.random() = rnd/JitterSteps, as
\* the whole milliseconds setTimeout waits (at least 1)
actualDelay(remaining, rnd) ==
    Max(1, Times(remaining, 9 * JitterSteps + 2 * rnd, 10 * JitterSteps) \div TicksPerMs)

InitRate ==
    /\ \E options \in LimiterOptions : rl = AdaptiveRateLimiter(options)
    /\ sleepers = [c \in Callers |-> << >>]
    /\ rlTrace = << [delay |-> rl.currentDelay, rateLimited |-> FALSE] >>
    /\ pc = "rate" /\ error = <<>> /\ response = NoResponse /\ attempt = 0
    /\ errorType = "" /\ decision = NoDecision
    /\ CrawlUnused
    /\ CallUnused

RecordRequest ==
    /\ rl.metrics.totalRequests < MaxRecords
    /\ \E success \in BOOLEAN, responseTime \in ResponseTimes, rateLimited \in BOOLEAN :
          /\ rl' = recordRequest(rl, success, responseTime, rateLimited)
          /\ rlTrace' = Append(rlTrace, [delay |-> rl'.currentDelay,
                                         rateLimited |-> rateLimited])
    /\ UNCHANGED <<sleepers, retryVars, crawlVars, callVars>>

\* waitForNextRequest when no delay remains: returns 0 at once.
WaitNoDelay(c) ==
    /\ sleepers[c] = << >>
    /\ remainingDelay(rl) <= 0
    /\ rl' = [rl EXCEPT !.sinceLastRequest = 0]
    /\ UNCHANGED <<sleepers, rlTrace, retryVars, crawlVars, callVars>>

\* waitForNextRequest up to its await: the caller starts a timer.
WaitSleep(c) ==
    /\ sleepers[c] = << >>
    /\ remainingDelay(rl) > 0
    /\ \E rnd \in WaitJitter :
          sleepers' = [sleepers EXCEPT
                         ![c] = << [remaining |-> actualDelay(remainingDelay(rl), rnd)] >>]
    /\ UNCHANGED <<rl, rlTrace, retryVars, crawlVars, callVars>>

\* waitForNextRequest after its await: lastRequestTime = Date.now().
WaitWake(c) ==
    /\ sleepers[c] # << >>
    /\ sleepers[c][1].remaining = 0
    /\ rl' = [rl EXCEPT !.sinceLastRequest = 0]
    /\ sleepers' = [sleepers EXCEPT ![c] = << >>]
    /\ UNCHANGED <<rlTrace, retryVars, crawlVars, callVars>>

\* Time passes: until the next timer is due, or for long when none is set.
TimePasses ==
    LET asleep == { c \in DOMAIN sleepers : sleepers[c] # << >> }
        step   == IF asleep = {}
                  THEN LongAgo - rl.sinceLastRequest
                  ELSE CHOOSE m \in { sleepers[c][1].remaining : c \in asleep } :
                           \A c \in asleep : m <= sleepers[c][1].remaining
    IN  /\ step > 0
        /\ rl' = [rl EXCEPT !.sinceLastRequest = Min(LongAgo, @ + step)]
        /\ sleepers' = [c \in DOMAIN sleepers |->
                          IF c \in asleep
                          THEN << [remaining |-> sleepers[c][1].remaining - step] >>
                          ELSE << >>]
        /\ UNCHANGED <<rlTrace, retryVars, crawlVars, callVars>>

Reset ==
    /\ rl' = reset(rl)
    /\ rlTrace' = << [delay |-> rl'.currentDelay, rateLimited |-> FALSE] >>
    /\ UNCHANGED <<sleepers, retryVars, crawlVars, callVars>>

NextRate ==
    \/ RecordRequest
    \/ \E c \in Callers : WaitNoDelay(c)
    \/ \E c \in Callers : WaitSleep(c)
    \/ \E c \in Callers : WaitWake(c)
    \/ TimePasses
    \/ Reset

SpecRate == InitRate /\ [][NextRate]_vars

(***************************************************************************)
(* Claims about the rate limiter (checked under SpecRate).                 *)
(***************************************************************************)
WithinRange(self) ==
    self.minDelay <= self.currentDelay /\ self.currentDelay <= self.maxDelay

\* No outcome recorded since construction or the last reset.
Fresh(self) == self.metrics.totalRequests = 0

\* The stored average response time is above 5000 ms.
SlowResponses(self) ==
    self.metrics.averageResponseTime.sum > 5000 * self.metrics.averageResponseTime.count

ThreeHitsFrom1000 ==
    { i \in 1..(Len(rlTrace) - 3) :
        /\ rlTrace[i].delay = 1000 * TicksPerMs
        /\ \A k \in 1..3 : rlTrace[i + k].rateLimited }

NonDecreasingFrom(i) ==
    \A k \in 1..3 : rlTrace[i + k].delay >= rlTrace[i + k - 1].delay

\* C9 as stated (for a limiter with minDelay <= maxDelay): from a current
\* delay of 1000 ms, three consecutive rate-limited outcomes drive the delay
\* to the configured maximum, and the delay does not decrease at any of the
\* three steps.
C9_Original ==
    rl.minDelay <= rl.maxDelay =>
        \A i \in ThreeHitsFrom1000 :
            /\ rlTrace[i + 3].delay = rl.maxDelay
            /\ NonDecreasingFrom(i)

\* C9: for a limiter with minDelay <= maxDelay, from a current delay of
\* 1000 ms three consecutive rate-limited outcomes leave the delay between
\* min(8000 ms, maxDelay) and min(10648 ms, maxDelay) -- 8000 ms from the
\* three doublings, up to 1.1 times more per step for slow responses -- so
\* at the configured maximum whenever that is at most 8000 ms; and the
\* delay does not decrease at any of the three steps.
C9_ThreeHitsReachEightSeconds ==
    rl.minDelay <= rl.maxDelay =>
        \A i \in ThreeHitsFrom1000 :
            /\ rlTrace[i + 3].delay >= Min(8000 * TicksPerMs, rl.maxDelay)
            /\ rlTrace[i + 3].delay <= Min(10648 * TicksPerMs, rl.maxDelay)
            /\ NonDecreasingFrom(i)

\* Three hits on the orchestrator's limiter end at 8000 ms, below its maximum.
C9_Witness ==
    /\ rl.maxDelay = 15000 * TicksPerMs
    /\ 1 \in ThreeHitsFrom1000
    /\ rlTrace[4].delay = 8000 * TicksPerMs

\* This step is a recordRequest call with rateLimited = true.
RecordsRateLimited ==
    /\ rl'.metrics.totalRequests = rl.metrics.totalRequests + 1
    /\ rl'.requestHistory[Len(rl'.requestHistory)].rateLimited

\* C10 as stated: on every outcome recorded with rateLimited = true, the
\* delay after recordRequest is min(2 * previous delay, maxDelay).
C10_Original ==
    [][RecordsRateLimited =>
          rl'.currentDelay = DoubleUpTo(rl.currentDelay, rl.maxDelay)]_vars

\* C10: on every outcome recorded with rateLimited = true, whatever the
\* success flag and the success-rate history, the delay after recordRequest
\* is min(2 * previous delay, maxDelay) when the average response time of
\* the history (this outcome included) is at most 5000 ms, and that value
\* times 1.1, clamped to maxDelay again, when it is above.
C10_RateLimitedDoublesThenSlowFactor ==
    [][RecordsRateLimited =>
          LET doubled == DoubleUpTo(rl.currentDelay, rl.maxDelay)
          IN  rl'.currentDelay =
                  IF SlowResponses(rl')
                  THEN Min(Times(doubled, 11, 10), rl.maxDelay)
                  ELSE doubled]_vars

\* A rate-limited outcome recorded with slow responses: the delay is 2.2
\* times the previous one, below the maximum.
C10_Witness ==
    /\ Len(rlTrace) >= 2
    /\ rlTrace[Len(rlTrace)].rateLimited
    /\ SlowResponses(rl)
    /\ rl.currentDelay = Times(2 * rlTrace[Len(rlTrace) - 1].delay, 11, 10)
    /\ 0 < rl.currentDelay /\ rl.currentDelay < rl.maxDelay
    /\ rl.metrics.currentSuccessRate.n = 0

(***************************************************************************)
(* The rate limiter over a long run: a history longer than the 20 recent   *)
(* requests the success rate looks at.  A run records some failures, then  *)
(* successes, then one outcome of any kind.                                *)
(***************************************************************************)
MaxEarlyFailures == 2    \* failures recorded at the start of a long run
MaxLateSuccesses == 21   \* successes recorded after them

InitWindow ==
    /\ \E options \in LimiterOptions : rl = AdaptiveRateLimiter(options)
    /\ sleepers = [c \in Callers |-> << >>]
    /\ rlTrace = << [delay |-> rl.currentDelay, rateLimited |-> FALSE] >>
    /\ pc = "failures" /\ error = <<>> /\ response = NoResponse /\ attempt = 0
    /\ errorType = "" /\ decision = NoDecision
    /\ CrawlUnused
    /\ CallUnused

\* recordRequest(false, 0, false) at the start of the run
RecordEarlyFailure ==
    /\ pc = "failures"
    /\ rl.metrics.totalRequests < MaxEarlyFailures
    /\ rl' = recordRequest(rl, FALSE, 0, FALSE)
    /\ rlTrace' = Append(rlTrace, [delay |-> rl'.currentDelay, rateLimited |-> FALSE])
    /\ UNCHANGED <<sleepers, retryVars, crawlVars, callVars>>

\* recordRequest(true, 0, false) after the failures
RecordLateSuccess ==
    /\ pc \in {"failures", "successes"}
    /\ rl.metrics.successfulRequests < MaxLateSuccesses
    /\ rl' = recordRequest(rl, TRUE, 0, FALSE)
    /\ rlTrace' = Append(rlTrace, [delay |-> rl'.currentDelay, rateLimited |-> FALSE])
    /\ pc' = "successes"
    /\ UNCHANGED <<sleepers, error, response, attempt, errorType, decision, crawlVars, callVars>>

\* recordRequest with any arguments, at any point of the run
RecordOutcome ==
    /\ pc \in {"failures", "successes"}
    /\ \E success \in BOOLEAN, responseTime \in ResponseTimes, rateLimited \in BOOLEAN :
          /\ rl' = recordRequest(rl, success, responseTime, rateLimited)
          /\ rlTrace' = Append(rlTrace, [delay |-> rl'.currentDelay,
                                         rateLimited |-> rateLimited])
    /\ pc' = "recorded"
    /\ UNCHANGED <<sleepers, error, response, attempt, errorType, decision, crawlVars, callVars>>

NextWindow ==
    \/ RecordEarlyFailure
    \/ RecordLateSuccess
    \/ RecordOutcome

SpecWindow == InitWindow /\ [][NextWindow]_vars

(***************************************************************************)
(* Claims about the delay adjustment (checked under SpecWindow).           *)
(***************************************************************************)
\* This step is a recordRequest call with rateLimited = false.
RecordsNotRateLimited ==
    /\ rl'.metrics.totalRequests = rl.metrics.totalRequests + 1
    /\ ~rl'.requestHistory[Len(rl'.requestHistory)].rateLimited

\* The success rate of the 20 most recent entries of the history is below
\* the target: successes / entries < targetSuccessRate.
RecentRateBelowTarget(self) ==
    LET n      == Len(self.requestHistory)
        recent == { i \in 1..n : i > n - 20 }
        good   == { i \in recent : self.requestHistory[i].success }
    IN  Cardinality(good) * self.targetSuccessRate.d
            < self.targetSuccessRate.n * Cardinality(recent)

\* The delay one backoff step (x 1.1, up to maxDelay) gives from delay v.
BackoffStep(self, v) == Min(Times(v, 11, 10), self.maxDelay)

\* The delay one recovery step (x 0.95, down to minDelay) gives from delay v.
RecoveryStep(self, v) == IF v > self.minDelay THEN Max(Times(v, 19, 20), self.minDelay) ELSE v

InitPace ==
    /\ \E options \in LimiterOptions : rl = AdaptiveRateLimiter(options)
    /\ sleepers = [w \in Workers |-> << >>]
    /\ rlTrace = << [delay |-> rl.currentDelay, rateLimited |-> FALSE] >>
    /\ pc = "pace" /\ error = <<>> /\ response = NoResponse /\ attempt = 0
    /\ errorType = "" /\ decision = NoDecision
    /\ CrawlUnused
    /\ CallUnused

NextPace ==
    \/ \E w \in Workers : WaitNoDelay(w)
    \/ \E w \in Workers : WaitSleep(w)
    \/ \E w \in Workers : WaitWake(w)
    \/ TimePasses

SpecPace == InitPace /\ [][NextPace]_vars

\* This step is a return from waitForNextRequest (a dispatch): it sets
\* lastRequestTime to the present.
Dispatches ==
    /\ rl'.sinceLastRequest = 0
    /\ rl.sinceLastRequest # 0 \/ sleepers' # sleepers

\* C12: any two consecutive returns from waitForNextRequest are separated
\* by at least the current delay less the 10% jitter (to the millisecond),
\* however many workers call it concurrently.
C12_DispatchesAreSpaced ==
    [][Dispatches =>
          (rl.sinceLastRequest + 1) * TicksPerMs >= Times(rl.currentDelay, 9, 10)]_vars

(***************************************************************************)
(* Claims about the outcome recorded per attempt (checked under SpecCrawl).*)
(***************************************************************************)
\* The page handler completes without error on this page: no captcha, a
\* status below 400 and no fault while extracting.
CompletesWithoutError(page) ==
    ~page.captcha /\ page.response.status < 400 /\ page.fault = ""

LowerSchemes == {"http://", "https://"}
Schemes      == LowerSchemes \cup {"HTTP://"}      \* as a pattern with flag i reads them
Names        == {"alice", "bob"}
PathKeywords == {"channel", "c", "user"}

\* String.prototype.trim
RECURSIVE trimStart(_)
trimStart(s) == IF s # << >> /\ Head(s) = " " THEN trimStart(Tail(s)) ELSE s

RECURSIVE trimEnd(_)
trimEnd(s) ==
    IF s # << >> /\ s[Len(s)] = " " THEN trimEnd(SubSeq(s, 1, Len(s) - 1)) ELSE s

trim(s) == trimEnd(trimStart(s))

\* s.replace(/\/+$/, '')
RECURSIVE stripTrailingSlashes(_)
stripTrailingSlashes(s) ==
    IF s # << >> /\ s[Len(s)] = "/"
    THEN stripTrailingSlashes(SubSeq(s, 1, Len(s) - 1))
    ELSE s

\* s.startsWith('http'), s.startsWith('http://'), s.startsWith('@')
startsWithHttp(s)       == s # << >> /\ Head(s) \in LowerSchemes
startsWithHttpScheme(s) == s # << >> /\ Head(s) = "http://"
startsWithAt(s)         == s # << >> /\ Head(s) = "@"

\* s.includes(token)
includesToken(s, token) == \E i \in DOMAIN s : s[i] = token

\* s.replace('http://', 'https://'): the first occurrence
replaceHttp(s) ==
    IF includesToken(s, "http://")
    THEN LET i == CHOOSE k \in DOMAIN s :
                      s[k] = "http://" /\ \A j \in 1..(k - 1) : s[j] # "http://"
         IN  [s EXCEPT ![i] = "https://"]
    ELSE s

\* The path shapes of a channel: @name, channel/ID, c/name, user/name.
IsChannelPath(p) ==
    \/ Len(p) = 2 /\ p[1] = "@" /\ p[2] \in Names
    \/ Len(p) = 3 /\ p[1] \in PathKeywords /\ p[2] = "/" /\ p[3] \in Names

\* YOUTUBE_URL_PATTERNS.some(pattern => pattern.test(s)):
\*   ^https?://(www\.)?youtube\.com/<channel path>/?$   (flag i), or ^@[\w-]+$
matchesYoutubeUrlPattern(s) ==
    \/ Len(s) = 2 /\ s[1] = "@" /\ s[2] \in Names
    \/ /\ Len(s) >= 3
       /\ s[1] \in Schemes
       /\ LET afterWww  == IF s[2] = "www." THEN SubSeq(s, 3, Len(s)) ELSE Tail(s)
              afterHost == SubSeq(afterWww, 3, Len(afterWww))
              path      == IF afterHost # << >> /\ afterHost[Len(afterHost)] = "/"
                           THEN SubSeq(afterHost, 1, Len(afterHost) - 1)
                           ELSE afterHost
          IN  /\ Len(afterWww) >= 2
              /\ afterWww[1] = "youtube.com"
              /\ afterWww[2] = "/"
              /\ IsChannelPath(path)

\* A value that is not a string (an object, a number, undefined).
NotAString == << "<not a string>" >>

\* normalizeChannelUrl of the input validator
normalizeChannelUrl(url) ==
    LET trimmed  == trim(url)
        handle   == IF startsWithAt(trimmed) /\ ~includesToken(trimmed, "youtube.com")
                    THEN <<"https://", "www.", "youtube.com", "/">> \o trimmed
                    ELSE trimmed
        https    == IF startsWithHttpScheme(handle) THEN replaceHttp(handle) ELSE handle
        protocol == IF ~startsWithHttp(https) THEN <<"https://">> \o https ELSE https
    IN  stripTrailingSlashes(protocol)

\* validateChannelUrl(url): { valid, url }
validateChannelUrl(url) ==
    IF url = << >> \/ url = NotAString
    THEN [valid |-> FALSE, url |-> << >>]
    ELSE IF ~matchesYoutubeUrlPattern(trim(url))
    THEN [valid |-> FALSE, url |-> << >>]
    ELSE [valid |-> TRUE, url |-> normalizeChannelUrl(trim(url))]

\* Strings a user may supply as a channel URL.
UrlTexts ==
    { lead \o scheme \o www \o host \o path \o tail \o trail :
        lead   \in {<< >>, <<" ">>},
        scheme \in {<< >>} \cup {<<s>> : s \in Schemes},
        www    \in {<< >>, <<"www.">>},
        host   \in {<< >>, <<"youtube.com", "/">>, <<"vimeo.com", "/">>},
        path   \in {<<"@", n>> : n \in Names} \cup {<<n>> : n \in Names}
                     \cup {<<k, "/", n>> : k \in PathKeywords, n \in Names},
        tail   \in {<< >>, <<"/">>, <<"/", "/">>, <<"?x=1">>},
        trail  \in {<< >>, <<" ">>} }

PureCall ==
    /\ error = <<>> /\ response = NoResponse /\ attempt = 0
    /\ errorType = "" /\ decision = NoDecision
    /\ CrawlUnused
    /\ RateUnused

InitUrl ==
    /\ pc = "url"
    /\ input \in UrlTexts \cup {<< >>, NotAString}
    /\ output = << >>
    /\ PureCall

\* validateChannelUrl(input)
ValidateUrl ==
    /\ pc = "url"
    /\ output' = << validateChannelUrl(input) >>
    /\ pc' = "validated"
    /\ UNCHANGED <<input, error, response, attempt, errorType, decision, crawlVars, rateVars>>

\* validateChannelUrl applied to the URL it returned
ValidateAgain ==
    /\ pc = "validated"
    /\ output[1].valid
    /\ input' = output[1].url
    /\ output' = << validateChannelUrl(output[1].url) >>
    /\ pc' = "revalidated"
    /\ UNCHANGED <<error, response, attempt, errorType, decision, crawlVars, rateVars>>

NextUrl == ValidateUrl \/ ValidateAgain

SpecUrl == InitUrl /\ [][NextUrl]_vars

\* C17: the URL validateChannelUrl returns for an accepted string is itself
\* accepted and normalizes to itself; and a bare handle @name normalizes to
\* https://www.youtube.com/@name.
C17_NormalizeIsIdempotent ==
    /\ pc = "revalidated" => output[1] = [valid |-> TRUE, url |-> input]
    /\ (pc = "validated" /\ Len(input) = 2 /\ input[1] = "@" /\ input[2] \in Names) =>
          output[1] = [valid |-> TRUE,
                       url |-> <<"https://", "www.", "youtube.com", "/">> \o input]

(***************************************************************************)
(* The input validator.  The raw input is a record of the options the      *)
(* orchestrator reads.  A list option is [type, items] with type           *)
(* "undefined", "array", "string" (a non-empty string) or "object"; a      *)
(* numeric option is [type, value] with type "undefined", "number" or      *)
(* "NaN" (a value Number() cannot convert).                                *)
(***************************************************************************)
Undefined == [type |-> "undefined", items |-> << >>]
NoNumber  == [type |-> "undefined", value |-> 0]
NaN       == [type |-> "NaN", value |-> 0]
Num(n)    == [type |-> "number", value |-> n]

Message(subject, text, index) == [subject |-> subject, text |-> text, index |-> index]

\* numericParams, in the order Object.entries visits them
numericParams ==
    << [param |-> "limit",                     min |-> 1,  max |-> 1000,   default |-> 5],
       [param |-> "maxRequestRetries",         min |-> 0,  max |-> 10,     default |-> 3],
       [param |-> "requestHandlerTimeoutSecs", min |-> 10, max |-> 300,    default |-> 30],
       [param |-> "minConcurrency",            min |-> 1,  max |-> 100,    default |-> 1],
       [param |-> "maxConcurrency",            min |-> 1,  max |-> 100,    default |-> 1],
       [param |-> "maxRequestsPerCrawl",       min |-> 1,  max |-> 100000, default |-> 100],
       [param |-> "maxChannelsPerRun",         min |-> 1,  max |-> 10000,  default |-> 1000] >>

ParamNames == { numericParams[i].param : i \in DOMAIN numericParams }

\* A clamp that replaces an out-of-range value by the far bound.
clampNumber_farBound(config, given) ==
    IF given.type = "undefined" THEN given
    ELSE IF given.type = "NaN" THEN Num(config.default)
    ELSE IF given.value < config.min THEN Num(config.max)
    ELSE IF given.value > config.max THEN Num(config.min)
    ELSE given

\* The value one numeric option is given by the loop over numericParams.
clampNumber(config, given) ==
    IF given.type = "undefined" THEN given
    ELSE IF given.type = "NaN" THEN Num(config.default)
    ELSE Num(Max(config.min, Min(config.max, given.value)))

\* .filter(k => typeof k === 'string' && k.trim()).map(k => k.trim())
RECURSIVE sanitizeKeywords(_)
sanitizeKeywords(items) ==
    IF items = << >> THEN << >>
    ELSE LET k == Head(items)
         IN  (IF k # NotAString /\ trim(k) # << >> THEN << trim(k) >> ELSE << >>)
                \o sanitizeKeywords(Tail(items))

\* The forEach over startUrls: the accepted URLs, and one warning for each
\* rejected item.
RECURSIVE validatedUrls(_)
validatedUrls(items) ==
    IF items = << >> THEN << >>
    ELSE LET validation == validateChannelUrl(Head(items))
         IN  (IF validation.valid
              THEN << [url |-> validation.url, metadata |-> << >>] >>
              ELSE << >>) \o validatedUrls(Tail(items))

RECURSIVE invalidUrlWarnings(_, _)
invalidUrlWarnings(items, index) ==
    IF items = << >> THEN << >>
    ELSE (IF validateChannelUrl(Head(items)).valid
          THEN << >>
          ELSE << Message("startUrls", "Invalid URL at index", index) >>)
            \o invalidUrlWarnings(Tail(items), index + 1)

\* A length test that is satisfied by every array, empty or not.
hasLength_anyArray(list) == list.type \in {"array", "string"}

\* sanitized.x?.length > 0
hasLength(list) ==
    \/ list.type = "array" /\ list.items # << >>
    \/ list.type = "string"

RECURSIVE numericMessages(_, _, _)
numericMessages(numbers, i, kind) ==
    IF i > Len(numericParams) THEN << >>
    ELSE LET config == numericParams[i]
             given  == numbers[config.param]
             here   == IF kind = "error"
                       THEN IF given.type = "NaN"
                            THEN << Message(config.param, "must be a number", 0) >>
                            ELSE << >>
                       ELSE IF given.type = "number"
                               /\ (given.value < config.min \/ given.value > config.max)
                            THEN << Message(config.param, "clamped to range", 0) >>
                            ELSE << >>
         IN  here \o numericMessages(numbers, i + 1, kind)

\* validateInput(input): { valid, errors, warnings, sanitizedInput }
validateInput(raw) ==
    LET keywords ==
            IF raw.keywords.type = "array"
            THEN [type |-> "array", items |-> sanitizeKeywords(raw.keywords.items)]
            ELSE raw.keywords
        keywordErrors ==
            IF raw.keywords.type \in {"string", "object"}
            THEN << Message("keywords", "must be an array", 0) >> ELSE << >>
        keywordWarnings ==
            IF raw.keywords.type = "array" /\ keywords.items = << >>
               /\ raw.keywords.items # << >>
            THEN << Message("keywords", "All keywords were invalid and removed", 0) >>
            ELSE << >>
        startUrls ==
            IF raw.startUrls.type = "array"
            THEN [type |-> "array", items |-> validatedUrls(raw.startUrls.items)]
            ELSE raw.startUrls
        startUrlErrors ==
            IF raw.startUrls.type \in {"string", "object"}
            THEN << Message("startUrls", "must be an array", 0) >> ELSE << >>
        startUrlWarnings ==
            IF raw.startUrls.type = "array"
            THEN invalidUrlWarnings(raw.startUrls.items, 0) ELSE << >>
        clamped ==
            [p \in ParamNames |->
                LET config == CHOOSE c \in { numericParams[i] : i \in DOMAIN numericParams } :
                                 c.param = p
                IN  clampNumber(config, raw.numbers[p])]
        swap ==
            /\ clamped["minConcurrency"].type = "number"
            /\ clamped["maxConcurrency"].type = "number"
            /\ clamped["minConcurrency"].value > clamped["maxConcurrency"].value
        numbers ==
            IF swap
            THEN [clamped EXCEPT !["minConcurrency"] = clamped["maxConcurrency"],
                                 !["maxConcurrency"] = clamped["minConcurrency"]]
            ELSE clamped
        swapWarnings ==
            IF swap
            THEN << Message("minConcurrency",
                            "cannot be greater than maxConcurrency, swapping values", 0) >>
            ELSE << >>
        booleanWarnings ==
            IF raw.savePartialResults = "other"
            THEN << Message("savePartialResults", "converted to boolean", 0) >> ELSE << >>
        savePartialResults ==
            IF raw.savePartialResults = "other" THEN "boolean" ELSE raw.savePartialResults
        proxyWarnings ==
            IF raw.proxyConfiguration = "apifyAndUrls"
            THEN << Message("proxyConfiguration",
                            "Both Apify proxy and custom proxy URLs provided", 0) >>
            ELSE << >>
        proxyErrors ==
            IF raw.proxyConfiguration = "urlsNotArray"
            THEN << Message("proxyUrls", "must be an array", 0) >> ELSE << >>
        proxyConfiguration ==
            IF raw.proxyConfiguration = "apifyAndUrls" THEN "apify"
            ELSE IF raw.proxyConfiguration = "urlsNotArray" THEN "noUrls"
            ELSE raw.proxyConfiguration
        csvErrors ==
            IF raw.csvContent.type = "object"
            THEN << Message("csvContent", "must be a string", 0) >> ELSE << >>
        csvContent ==
            IF raw.csvContent.type = "object" THEN Undefined ELSE raw.csvContent
        hasKeywords   == hasLength(keywords)
        hasStartUrls  == hasLength(startUrls)
        hasCsvContent == csvContent.type = "string"
        sourceErrors ==
            IF ~hasKeywords /\ ~hasStartUrls /\ ~hasCsvContent
            THEN << Message("", "At least one input source required", 0) >> ELSE << >>
        errors == keywordErrors \o startUrlErrors
                    \o numericMessages(raw.numbers, 1, "error")
                    \o proxyErrors \o csvErrors \o sourceErrors
        warnings == keywordWarnings \o startUrlWarnings
                      \o numericMessages(raw.numbers, 1, "warning")
                      \o swapWarnings \o booleanWarnings \o proxyWarnings
    IN  [valid |-> errors = << >>,
         errors |-> errors,
         warnings |-> warnings,
         sanitizedInput |->
            [keywords |-> keywords, startUrls |-> startUrls, numbers |-> numbers,
             savePartialResults |-> savePartialResults,
             proxyConfiguration |-> proxyConfiguration,
             csvContent |-> csvContent,
             resumeFromChannel |-> raw.resumeFromChannel]]

(***************************************************************************)
(* The CSV handler.  The payload is the sequence of records csv-parse      *)
(* returns for it (the rows after the header row, one trimmed value each). *)
(***************************************************************************)
\* A query string that itself holds a channel URL: ?u=youtube.com/@alice
EmbeddedQuery == "?u=youtube.com/@alice"
QueryTokens   == {"?x=1", EmbeddedQuery}

\* urlPatterns.some(pattern => pattern.test(value)): unanchored, flag i
matchesUrlPattern(s) ==
    \E i \in DOMAIN s :
        \/ s[i] = EmbeddedQuery
        \/ /\ s[i] = "youtube.com"
           /\ i + 1 <= Len(s) /\ s[i + 1] = "/"
           /\ \/ i + 3 <= Len(s) /\ s[i + 2] = "@" /\ s[i + 3] \in Names
              \/ /\ i + 4 <= Len(s)
                 /\ s[i + 2] \in PathKeywords /\ s[i + 3] = "/" /\ s[i + 4] \in Names

\* url.split('?')[0]
RECURSIVE beforeQuery(_)
beforeQuery(s) ==
    IF s = << >> \/ Head(s) \in QueryTokens THEN << >>
    ELSE << Head(s) >> \o beforeQuery(Tail(s))

\* The value a throwing call leaves in place of its result.
Thrown == << "<throws>" >>

\* normalizeChannelUrl of the CSV handler
csvHandler_normalizeChannelUrl(url) ==
    LET protocol == IF ~startsWithHttp(url) THEN <<"https://">> \o url ELSE url
        stripped == stripTrailingSlashes(beforeQuery(protocol))
    IN  IF ~includesToken(stripped, "youtube.com") THEN Thrown ELSE stripped

\* The entries one value of a record contributes to channelUrls.
extractChannelUrl(value, index) ==
    LET metadata == << [row |-> index + 2, source |-> "csv"] >>
    IN  IF matchesUrlPattern(value)
        THEN << [url |-> csvHandler_normalizeChannelUrl(value), metadata |-> metadata] >>
        ELSE IF startsWithAt(value) /\ ~includesToken(value, " ")
        THEN << [url |-> <<"https://", "www.", "youtube.com", "/">> \o value,
                 metadata |-> metadata] >>
        ELSE << >>

RECURSIVE extractChannelUrls(_, _)
extractChannelUrls(records, index) ==
    IF records = << >> THEN << >>
    ELSE extractChannelUrl(Head(records), index)
            \o extractChannelUrls(Tail(records), index + 1)

\* Deduplication that keeps the first entry of every URL whole.
uniqueByUrl_firstWins(channelUrls) ==
    LET firsts == { i \in DOMAIN channelUrls :
                      \A j \in 1..(i - 1) : channelUrls[j].url # channelUrls[i].url }
        F[i \in 0..Len(channelUrls)] ==
            IF i = 0 THEN << >>
            ELSE IF i \in firsts THEN Append(F[i - 1], channelUrls[i]) ELSE F[i - 1]
    IN  F[Len(channelUrls)]

\* Array.from(new Map(channelUrls.map(item => [item.url, item])).values()):
\* a Map keeps a key where it was first inserted and the value last set.
uniqueByUrl(channelUrls) ==
    LET firsts == { i \in DOMAIN channelUrls :
                      \A j \in 1..(i - 1) : channelUrls[j].url # channelUrls[i].url }
        last(i) == CHOOSE j \in DOMAIN channelUrls :
                      /\ channelUrls[j].url = channelUrls[i].url
                      /\ \A k \in (j + 1)..Len(channelUrls) :
                            channelUrls[k].url # channelUrls[i].url
        F[i \in 0..Len(channelUrls)] ==
            IF i = 0 THEN << >>
            ELSE IF i \in firsts THEN Append(F[i - 1], channelUrls[last(i)]) ELSE F[i - 1]
    IN  F[Len(channelUrls)]

\* parseCSV(csvContent): the unique channel URLs, or the error it throws.
parseCSV(records) ==
    LET channelUrls == extractChannelUrls(records, 0)
    IN  IF \E i \in DOMAIN channelUrls : channelUrls[i].url = Thrown
        THEN [thrown |-> TRUE, urls |-> << >>]
        ELSE [thrown |-> FALSE, urls |-> uniqueByUrl(channelUrls)]

(***************************************************************************)
(* The orchestrator's start: read the input, validate it, merge the three  *)
(* sources into allChannelUrls and hand them to the request queue.         *)
(***************************************************************************)
MaxItems == 2     \* entries in one list of the input

SeqsUpTo(S, n) == UNION { [1..k -> S] : k \in 0..n }

AliceUrl == <<"https://", "www.", "youtube.com", "/", "@", "alice">>
BobUrl   == <<"https://", "www.", "youtube.com", "/", "@", "bob">>

KeywordItems == { <<"alice">>, <<" ", "bob", " ">>, <<" ">>, NotAString }

StartUrlItems ==
    { <<"@", "alice">>,
      <<"https://", "www.", "youtube.com", "/", "@", "bob", "/">>,
      <<"HTTP://", "youtube.com", "/", "@", "bob">>,
      <<"https://", "vimeo.com", "/", "@", "alice">>,
      NotAString }

CsvValues ==
    { AliceUrl,
      <<"http://", "www.", "youtube.com", "/", "@", "alice", "?x=1">>,
      <<"@", "bob">>,
      <<"@", "bob", "?x=1">>,
      <<"alice">>,
      <<"https://", "vimeo.com", "/", EmbeddedQuery>> }

\* item.author.url of the items one ytsr search returns
SearchResults == { << >>, <<AliceUrl, AliceUrl>>, <<BobUrl, AliceUrl>> }

NoNumbers == [p \in ParamNames |-> NoNumber]

\* The input the orchestrator substitutes when Actor.getInput() returns nothing.
defaultInput ==
    [keywords |-> [type |-> "array", items |-> << >>],
     startUrls |-> [type |-> "array", items |-> << >>],
     numbers |-> [NoNumbers EXCEPT !["limit"] = Num(5),
                                   !["maxRequestsPerCrawl"] = Num(100),
                                   !["minConcurrency"] = Num(1),
                                   !["maxConcurrency"] = Num(1)],
     savePartialResults |-> "undefined",
     proxyConfiguration |-> "undefined",
     csvContent |-> Undefined,
     resumeFromChannel |-> << >>]

Lists(S) == { Undefined, [type |-> "string", items |-> << >>],
              [type |-> "object", items |-> << >>] }
              \cup { [type |-> "array", items |-> s] : s \in SeqsUpTo(S, MaxItems) }

\* Inputs that differ in their sources.
SourceInputs ==
    { [defaultInput EXCEPT !.keywords = k, !.startUrls = u, !.csvContent = c,
                           !.numbers = NoNumbers] :
        k \in Lists(KeywordItems),
        u \in Lists(StartUrlItems),
        c \in { Undefined, [type |-> "empty", items |-> << >>],
                [type |-> "object", items |-> << >>] }
              \cup { [type |-> "string", items |-> s] : s \in SeqsUpTo(CsvValues, MaxItems) } }

OneKeyword == [type |-> "array", items |-> << <<"alice">> >>]
TwoUrls    == [type |-> "array", items |-> << <<"@", "alice">>, <<"@", "bob">> >>]

\* The values tried for one numeric option: absent, unparseable, either
\* side of each bound.
Below(config) == Num(config.min - 1)
Above(config) == Num(config.max + 1)
Config(p) == CHOOSE c \in { numericParams[i] : i \in DOMAIN numericParams } : c.param = p

ConcurrencyValues == { NoNumber, NaN, Num(0), Num(1), Num(5), Num(100), Num(200) }

OutOfRange(p) == { NoNumber, Below(Config(p)), Above(Config(p)) }

\* Inputs that differ in their numeric options.
NumericInputs ==
    { [defaultInput EXCEPT !.keywords = OneKeyword, !.startUrls = TwoUrls,
         !.numbers = [limit |-> l, maxRequestRetries |-> r,
                      requestHandlerTimeoutSecs |-> t, minConcurrency |-> lo,
                      maxConcurrency |-> hi, maxRequestsPerCrawl |-> q,
                      maxChannelsPerRun |-> c]] :
        l  \in { NaN, Num(Config("limit").default) } \cup OutOfRange("limit"),
        r  \in OutOfRange("maxRequestRetries"),
        t  \in OutOfRange("requestHandlerTimeoutSecs"),
        lo \in ConcurrencyValues,
        hi \in ConcurrencyValues,
        q  \in OutOfRange("maxRequestsPerCrawl"),
        c  \in OutOfRange("maxChannelsPerRun") }

\* Inputs that differ in their other options.
OtherInputs ==
    { [defaultInput EXCEPT !.keywords = OneKeyword, !.startUrls = TwoUrls,
                           !.numbers = NoNumbers,
                           !.savePartialResults = b, !.proxyConfiguration = p,
                           !.resumeFromChannel = r] :
        b \in {"undefined", "boolean", "other"},
        p \in {"undefined", "apify", "urls", "apifyAndUrls", "urlsNotArray"},
        r \in { << >>, <<"alice">>, <<"bob">> } }

RawInputs == SourceInputs \cup NumericInputs \cup OtherInputs

\* searchChannels(keywords, limit, existingUrls), given what each search returns
RECURSIVE searchChannels(_, _, _)
searchChannels(keywords, results, existingUrls) ==
    IF keywords = << >> THEN << >>
    ELSE LET found == Head(results)
             isNew(u) == \A i \in DOMAIN existingUrls : existingUrls[i].url # u
             newChannels == SelectSeq([i \in DOMAIN found |->
                                          [url |-> found[i], metadata |-> << >>]],
                                      LAMBDA channel : isNew(channel.url))
         IN  newChannels \o searchChannels(Tail(keywords), Tail(results), existingUrls)

\* allChannelUrls.slice(resumeIndex) when findIndex finds the marker past
\* the first entry
resumeFrom(allChannelUrls, resumeFromChannel) ==
    LET hits == { i \in DOMAIN allChannelUrls :
                    \E k \in DOMAIN allChannelUrls[i].url :
                        <<allChannelUrls[i].url[k]>> = resumeFromChannel }
        first == CHOOSE i \in hits : \A j \in hits : i <= j
    IN  IF resumeFromChannel # << >> /\ hits # {} /\ first > 1
        THEN SubSeq(allChannelUrls, first, Len(allChannelUrls))
        ELSE allChannelUrls

\* The option n of the sanitized input, or the default of the destructuring.
optionOr(numbers, param, default) ==
    IF numbers[param].type = "undefined" THEN default ELSE numbers[param].value

\* The merge of the three sources as the orchestrator builds it.
mergeChannelUrls(sanitized, results) ==
    LET startUrls == IF sanitized.startUrls.type = "array"
                     THEN sanitized.startUrls.items ELSE << >>
        csv       == IF sanitized.csvContent.type = "string"
                     THEN parseCSV(sanitized.csvContent.items).urls ELSE << >>
        keywords  == IF sanitized.keywords.type = "array"
                     THEN sanitized.keywords.items ELSE << >>
        existing  == startUrls \o csv
    IN  existing \o searchChannels(keywords, results, existing)

\* RequestList.open and prepareChannelUrls: one request per source the list
\* keeps, its URL without trailing slashes; list and queue keep a unique key
\* (the URL) once.
prepareChannelUrls(allChannelUrls) ==
    LET kept == uniqueByUrl_firstWins(allChannelUrls)
        requests == [i \in DOMAIN kept |->
                        LET cleanUrl == stripTrailingSlashes(kept[i].url)
                        IN  [url |-> cleanUrl, userData |-> [channelUrl |-> cleanUrl]]]
    IN  uniqueByUrl_firstWins(requests)

InitMain ==
    /\ pc = "main"
    /\ input \in { << >> } \cup { << raw >> : raw \in RawInputs }
    /\ output = << >>
    /\ PureCall

\* validateInput(rawInput), rawInput being the defaults when no input is given
ValidateInput ==
    /\ pc = "main"
    /\ LET rawInput == IF input = << >> THEN defaultInput ELSE input[1]
       IN  output' = << [validation |-> validateInput(rawInput), allChannelUrls |-> << >>] >>
    /\ pc' = "inputValidated"
    /\ UNCHANGED <<input, error, response, attempt, errorType, decision, crawlVars, rateVars>>

\* if (!validation.valid) throw new Error('Invalid input configuration: ...')
AbortInvalidInput ==
    /\ pc = "inputValidated"
    /\ ~output[1].validation.valid
    /\ pc' = "aborted"
    /\ UNCHANGED <<input, output, error, response, attempt, errorType, decision,
                   crawlVars, rateVars>>

\* The rest of the orchestrator up to crawler.run(): merge, limit, resume,
\* and either return with nothing to do or fill the request queue.
CollectChannelUrls ==
    /\ pc = "inputValidated"
    /\ output[1].validation.valid
    /\ LET sanitized == output[1].validation.sanitizedInput
           keywords  == IF sanitized.keywords.type = "array"
                        THEN sanitized.keywords.items ELSE << >>
       IN  \E results \in [DOMAIN keywords -> SearchResults] :
             LET merged   == mergeChannelUrls(sanitized, results)
                 maxChannelsPerRun == optionOr(sanitized.numbers, "maxChannelsPerRun", 1000)
                 limited  == IF Len(merged) > maxChannelsPerRun
                             THEN SubSeq(merged, 1, maxChannelsPerRun) ELSE merged
                 resumed  == resumeFrom(limited, sanitized.resumeFromChannel)
                 requests == prepareChannelUrls(resumed)
             IN  IF merged = << >>
                 THEN /\ pc' = "returned"
                      /\ UNCHANGED <<output, queue, seenKeys>>
                 ELSE /\ pc' = "enqueued"
                      /\ output' = << [output[1] EXCEPT !.allChannelUrls = resumed] >>
                      /\ queue' = requests
                      /\ seenKeys' = { requests[i].url : i \in DOMAIN requests }
    /\ UNCHANGED <<input, error, response, attempt, errorType, decision, workers, timers,
                   dataset, failedLog, processedCount, recorded, crawlDone, rateVars>>

NextMain == ValidateInput \/ AbortInvalidInput \/ CollectChannelUrls

SpecMain == InitMain /\ [][NextMain]_vars

(***************************************************************************)
(* Claims about the orchestrator's start.                                  *)
(***************************************************************************)
\* The input the run validates.
RawInput == IF input = << >> THEN defaultInput ELSE input[1]

\* No keyword is a non-blank string, no start URL is an accepted channel URL,
\* and there is no bulk payload.
NoUsableSource(raw) ==
    /\ raw.keywords.type = "array" =>
          \A i \in DOMAIN raw.keywords.items :
              \/ raw.keywords.items[i] = NotAString
              \/ \A k \in DOMAIN raw.keywords.items[i] : raw.keywords.items[i][k] = " "
    /\ raw.startUrls.type = "array" =>
          \A i \in DOMAIN raw.startUrls.items :
              \/ raw.startUrls.items[i] = NotAString
              \/ ~matchesYoutubeUrlPattern(trim(raw.startUrls.items[i]))
    /\ raw.csvContent.type # "string"

SourceRequired == Message("", "At least one input source required", 0)

\* C14: when the keyword list, the start URLs and the bulk payload are all
\* empty once sanitized (every entry dropped, or no input at all), validation
\* reports an error (the missing source, unless a list was given as a string
\* and rejected for that), and the run neither returns normally nor enqueues
\* a request nor opens a page: it aborts.
C14_NoSourceAborts ==
    (pc # "main" /\ NoUsableSource(RawInput)) =>
        /\ ~output[1].validation.valid
        /\ output[1].validation.errors # << >>
        /\ (RawInput.keywords.type # "string" /\ RawInput.startUrls.type # "string") =>
              \E i \in DOMAIN output[1].validation.errors :
                  output[1].validation.errors[i] = SourceRequired
        /\ pc \in {"inputValidated", "aborted"}
        /\ queue = << >> /\ seenKeys = {} /\ workers = << >>

\* A run whose keywords and start URLs were all dropped as invalid has
\* aborted, the missing source being its only error.
C14_Witness ==
    /\ pc = "aborted"
    /\ input # << >>
    /\ input[1].keywords.type = "array" /\ input[1].keywords.items # << >>
    /\ input[1].startUrls.type = "array" /\ input[1].startUrls.items # << >>
    /\ NoUsableSource(input[1])
    /\ output[1].validation.errors = << SourceRequired >>
    /\ queue = << >>

NearestBound(config, v) ==
    IF v < config.min THEN config.min ELSE IF v > config.max THEN config.max ELSE v

HasMessage(messages, subject, text) ==
    \E i \in DOMAIN messages : messages[i] = Message(subject, text, 0)

\* minConcurrency and maxConcurrency are both present after clamping and the
\* clamped minimum exceeds the clamped maximum.
ConcurrencySwapped(raw) ==
    LET lo == raw.numbers["minConcurrency"]
        hi == raw.numbers["maxConcurrency"]
        value(config, n) == IF n.type = "NaN" THEN config.default
                            ELSE NearestBound(config, n.value)
    IN  /\ lo.type # "undefined" /\ hi.type # "undefined"
        /\ value(Config("minConcurrency"), lo) > value(Config("maxConcurrency"), hi)

\* The option whose value an option receives when the two are exchanged.
Exchanged(p) ==
    IF p = "minConcurrency" THEN "maxConcurrency"
    ELSE IF p = "maxConcurrency" THEN "minConcurrency" ELSE p

\* C15 as stated: every numeric option supplied as a number is sanitized to
\* a value of its range, the nearest bound when it was out of range, with a
\* warning and without an error.
C15_Original ==
    pc # "main" =>
        \A i \in DOMAIN numericParams :
            LET config == numericParams[i]
                given  == RawInput.numbers[config.param]
                result == output[1].validation.sanitizedInput.numbers[config.param]
            IN  given.type = "number" =>
                  /\ result.type = "number"
                  /\ config.min <= result.value /\ result.value <= config.max
                  /\ result.value = NearestBound(config, given.value)
                  /\ (given.value < config.min \/ given.value > config.max) =>
                        HasMessage(output[1].validation.warnings, config.param,
                                   "clamped to range")
                  /\ ~HasMessage(output[1].validation.errors, config.param,
                                 "must be a number")

\* C15: every numeric option supplied as a number is sanitized to a value of
\* its range, an out-of-range value adding a warning and never an error; the
\* value is the nearest bound of what was supplied, except that
\* minConcurrency and maxConcurrency exchange their clamped values (with a
\* warning) when the minimum would exceed the maximum.
C15_ClampedThenSwapped ==
    pc # "main" =>
        \A i \in DOMAIN numericParams :
            LET config == numericParams[i]
                given  == RawInput.numbers[config.param]
                result == output[1].validation.sanitizedInput.numbers[config.param]
                from   == IF ConcurrencySwapped(RawInput)
                          THEN Exchanged(config.param) ELSE config.param
                source == RawInput.numbers[from]
            IN  given.type = "number" =>
                  /\ result.type = "number"
                  /\ config.min <= result.value /\ result.value <= config.max
                  /\ result.value = IF source.type = "NaN" THEN Config(from).default
                                    ELSE NearestBound(Config(from), source.value)
                  /\ (given.value < config.min \/ given.value > config.max) =>
                        HasMessage(output[1].validation.warnings, config.param,
                                   "clamped to range")
                  /\ ConcurrencySwapped(RawInput) =>
                        HasMessage(output[1].validation.warnings, "minConcurrency",
                                   "cannot be greater than maxConcurrency, swapping values")
                  /\ ~HasMessage(output[1].validation.errors, config.param,
                                 "must be a number")

\* An input whose numeric options are all out of range, minConcurrency above
\* and maxConcurrency below, has been accepted and its requests enqueued.
C15_Witness ==
    /\ pc = "enqueued"
    /\ input # << >>
    /\ \A i \in DOMAIN numericParams :
          LET given == input[1].numbers[numericParams[i].param]
          IN  /\ given.type = "number"
              /\ given.value < numericParams[i].min \/ given.value > numericParams[i].max
    /\ input[1].numbers["minConcurrency"].value = 200
    /\ input[1].numbers["maxConcurrency"].value = 0
    /\ output[1].validation.valid
    /\ output[1].validation.sanitizedInput.numbers["minConcurrency"].value = 1
    /\ output[1].validation.sanitizedInput.numbers["maxConcurrency"].value = 100

\* The canonical form of a URL: https, no query string, no trailing slash.
Canonical(url) ==
    LET path == stripTrailingSlashes(beforeQuery(url))
    IN  IF startsWithHttpScheme(path) THEN replaceHttp(path) ELSE path

\* The rows of the payload (numbered as the handler numbers them) whose
\* value gives the URL u.
RowsOf(u) ==
    LET records == RawInput.csvContent.items
    IN  { k + 1 : k \in { i \in DOMAIN records :
                            /\ extractChannelUrl(records[i], i - 1) # << >>
                            /\ extractChannelUrl(records[i], i - 1)[1].url = u } }

FirstIndex(seq, u) == CHOOSE i \in DOMAIN seq : seq[i].url = u /\ \A j \in 1..(i - 1) : seq[j].url # u

\* C16: of the identifiers handed to the request queue no two have the same
\* canonical URL, they stand in the order in which their URLs were first
\* seen, and an identifier that came from the bulk payload carries the row
\* of the first record that gave its URL.
C16_FirstOccurrenceWins ==
    pc = "enqueued" =>
        LET handed == output[1].allChannelUrls
        IN  /\ \A i, j \in DOMAIN queue :
                  i < j => Canonical(queue[i].url) # Canonical(queue[j].url)
            /\ \A i, j \in DOMAIN queue :
                  i < j => FirstIndex(handed, queue[i].url) < FirstIndex(handed, queue[j].url)
            /\ \A i \in DOMAIN handed :
                  handed[i].metadata # << >> =>
                      \A r \in RowsOf(handed[i].url) : handed[i].metadata[1].row <= r

\* https://(www.)youtube.com/ followed by one of the four path shapes, with
\* nothing after it.
IsCanonical(url) ==
    /\ Len(url) >= 3
    /\ url[1] = "https://"
    /\ LET afterWww == IF url[2] = "www." THEN SubSeq(url, 3, Len(url)) ELSE Tail(url)
       IN  /\ Len(afterWww) >= 2
           /\ afterWww[1] = "youtube.com"
           /\ afterWww[2] = "/"
           /\ IsChannelPath(SubSeq(afterWww, 3, Len(afterWww)))

\* C18: every URL that reaches the request queue from the start URLs or the
\* bulk payload is canonical: https, no trailing slash, no query string, one
\* of the four path shapes.
C18_QueuedUrlsAreCanonical ==
    (pc = "enqueued" /\ ~hasLength(output[1].validation.sanitizedInput.keywords)) =>
        \A i \in DOMAIN queue : IsCanonical(queue[i].url)

(***************************************************************************)
(* The URL categorizer.  A discovered URL is text as above; a host is      *)
(* split where a pattern can match inside it ("netfli" "x.com"), and the   *)
(* value of a query parameter is percent-encoded.                          *)
(***************************************************************************)
MaxUrls == 2     \* URLs discovered on one page

QueryParam == "?q="

\* decodeURIComponent(value)
decodeURIComponent(s) ==
    [i \in DOMAIN s |->
        CASE s[i] = "https%3A%2F%2F" -> "https://"
          [] s[i] = "%2F"            -> "/"
          [] s[i] = "%40"            -> "@"
          [] OTHER                   -> s[i]]

\* encodeURIComponent(value)
encodeURIComponent(s) ==
    [i \in DOMAIN s |->
        CASE s[i] = "https://" -> "https%3A%2F%2F"
          [] s[i] = "/"        -> "%2F"
          [] s[i] = "@"        -> "%40"
          [] OTHER             -> s[i]]

\* url.includes(pattern)
includesText(url, pattern) ==
    \E i \in 1..(Len(url) - Len(pattern) + 1) :
        SubSeq(url, i, i + Len(pattern) - 1) = pattern

\* SOCIAL_MEDIA_PATTERNS, in the order of its keys
SOCIAL_MEDIA_PATTERNS ==
    << [key |-> "YOUTUBE",    isArray |-> TRUE,  patterns |-> << <<"youtube.com">> >>,
        requiredPaths |-> << >>],
       [key |-> "INSTAGRAM",  isArray |-> TRUE,  patterns |-> << <<"instagram.com">> >>,
        requiredPaths |-> << >>],
       [key |-> "TWITTER",    isArray |-> TRUE,
        patterns |-> << <<"twitter.com">>, <<"x.com">> >>, requiredPaths |-> << >>],
       [key |-> "FACEBOOK",   isArray |-> TRUE,
        patterns |-> << <<"facebook.com">>, <<"fb.com">> >>, requiredPaths |-> << >>],
       [key |-> "LINKEDIN",   isArray |-> TRUE,  patterns |-> << <<"linkedin.com">> >>,
        requiredPaths |-> << >>],
       [key |-> "PINTEREST",  isArray |-> TRUE,  patterns |-> << <<"pinterest.com">> >>,
        requiredPaths |-> << >>],
       [key |-> "REDDIT",     isArray |-> TRUE,  patterns |-> << <<"reddit.com">> >>,
        requiredPaths |-> << >>],
       [key |-> "TUMBLR",     isArray |-> TRUE,  patterns |-> << <<"tumblr.com">> >>,
        requiredPaths |-> << >>],
       [key |-> "TIKTOK",     isArray |-> TRUE,  patterns |-> << <<"tiktok.com">> >>,
        requiredPaths |-> << >>],
       [key |-> "TWITCH",     isArray |-> TRUE,  patterns |-> << <<"twitch.tv">> >>,
        requiredPaths |-> << >>],
       [key |-> "ONLYFANS",   isArray |-> TRUE,  patterns |-> << <<"onlyfans.com">> >>,
        requiredPaths |-> << >>],
       [key |-> "SPOTIFY",    isArray |-> FALSE, patterns |-> << <<"spotify.com">> >>,
        requiredPaths |-> << <<"user">>, <<"artist">> >>],
       [key |-> "SOUNDCLOUD", isArray |-> TRUE,  patterns |-> << <<"soundcloud.com">> >>,
        requiredPaths |-> << >>],
       [key |-> "DISCORD",    isArray |-> TRUE,
        patterns |-> << <<"discord.gg">>, <<"discord.com", "/", "invite">> >>,
        requiredPaths |-> << >>],
       [key |-> "PATREON",    isArray |-> TRUE,  patterns |-> << <<"patreon.com">> >>,
        requiredPaths |-> << >>],
       [key |-> "GITHUB",     isArray |-> TRUE,  patterns |-> << <<"github.com">> >>,
        requiredPaths |-> << >>],
       [key |-> "WEBSITE",    isArray |-> TRUE,  patterns |-> << <<"http">>, <<"https">> >>,
        requiredPaths |-> << >>] >>

Platform(key) ==
    CHOOSE p \in { SOCIAL_MEDIA_PATTERNS[i] : i \in DOMAIN SOCIAL_MEDIA_PATTERNS } :
        p.key = key

somePattern(url, patterns) == \E k \in DOMAIN patterns : includesText(url, patterns[k])

\* new URL(url) does not throw
parsesAsUrl(url) == url # << >> /\ Head(url) \in {"http://", "https://"}

\* urlObj.searchParams.get('q'), decoded; << >> stands for null
queryValue(url) ==
    IF parsesAsUrl(url) /\ includesToken(url, QueryParam)
    THEN LET i == CHOOSE k \in DOMAIN url :
                      url[k] = QueryParam /\ \A j \in 1..(k - 1) : url[j] # QueryParam
         IN  decodeURIComponent(SubSeq(url, i + 1, Len(url)))
    ELSE << >>

\* extractUrlParameters(urls, 'q')
RECURSIVE extractUrlParameters(_)
extractUrlParameters(urls) ==
    IF urls = << >> THEN << >>
    ELSE (IF queryValue(Head(urls)) # << >> THEN << queryValue(Head(urls)) >> ELSE << >>)
            \o extractUrlParameters(Tail(urls))

\* filterUrlsByDomain(urls, patterns)
filterUrlsByDomain(urls, platform) ==
    IF ~platform.isArray THEN << >>
    ELSE SelectSeq(urls, LAMBDA url : somePattern(url, platform.patterns))

\* cleanUrl(url): protocol, host and path, or the text before '?' and '#'
cleanUrl(url) ==
    IF includesToken(url, QueryParam)
    THEN LET i == CHOOSE k \in DOMAIN url :
                      url[k] = QueryParam /\ \A j \in 1..(k - 1) : url[j] # QueryParam
         IN  SubSeq(url, 1, i - 1)
    ELSE url

\* Array.from(new Set(urls))
RECURSIVE unique(_)
unique(urls) ==
    IF urls = << >> THEN << >>
    ELSE LET init == unique(SubSeq(urls, 1, Len(urls) - 1))
             last == urls[Len(urls)]
         IN  IF \E i \in DOMAIN init : init[i] = last THEN init ELSE Append(init, last)

\* The URLs categorizeSocialUrls sorts into buckets.
uniqueUrls(allUrls) ==
    LET redirectUrls == extractUrlParameters(allUrls)
        directUrls   == SelectSeq(allUrls, LAMBDA url :
                            /\ ~includesText(url, <<"youtube.com", "/", "redirect">>)
                            /\ ~includesText(url, <<"youtube.com", "/", "@">>))
    IN  unique(redirectUrls \o directUrls)

\* The test of the generic-website filter: some platform other than WEBSITE
\* has a pattern (or a domain) the URL includes.
isSocial(url) ==
    \E i \in DOMAIN SOCIAL_MEDIA_PATTERNS :
        /\ SOCIAL_MEDIA_PATTERNS[i].key # "WEBSITE"
        /\ somePattern(url, SOCIAL_MEDIA_PATTERNS[i].patterns)

\* categorizeSocialUrls(allUrls)
categorizeSocialUrls(allUrls) ==
    LET urls == uniqueUrls(allUrls)
        bucket(key) == filterUrlsByDomain(urls, Platform(key))
        tiktok == bucket("TIKTOK")
    IN  [youtubeUrls    |-> bucket("YOUTUBE"),
         instagramUrls  |-> bucket("INSTAGRAM"),
         twitterUrls    |-> bucket("TWITTER"),
         facebookUrls   |-> bucket("FACEBOOK"),
         linkedinUrls   |-> bucket("LINKEDIN"),
         pinterestUrls  |-> bucket("PINTEREST"),
         redditUrls     |-> bucket("REDDIT"),
         tumblrUrls     |-> bucket("TUMBLR"),
         twitchUrls     |-> bucket("TWITCH"),
         onlyfansUrls   |-> bucket("ONLYFANS"),
         soundcloudUrls |-> bucket("SOUNDCLOUD"),
         discordUrls    |-> bucket("DISCORD"),
         patreonUrls    |-> bucket("PATREON"),
         githubUrls     |-> bucket("GITHUB"),
         tiktokUrls     |-> [i \in DOMAIN tiktok |-> cleanUrl(tiktok[i])],
         spotifyUrls    |-> SelectSeq(urls, LAMBDA url :
                                /\ somePattern(url, Platform("SPOTIFY").patterns)
                                /\ somePattern(url, Platform("SPOTIFY").requiredPaths)),
         websiteUrls    |-> SelectSeq(urls, LAMBDA url :
                                ~isSocial(url) /\ ~includesText(url, <<"youtube.com">>))]

\* Text found as a link on a channel page: anchors' hrefs (http or https) and
\* the links of the channel metadata (any non-empty text).
Redirect(target) ==
    <<"https://", "www.", "youtube.com", "/", "redirect", QueryParam>>
        \o encodeURIComponent(target)

DiscoveredUrls ==
    { <<"https://", "www.", "youtube.com", "/", "@", "alice">>,
      <<"https://", "www.", "youtube.com", "/", "channel", "/", "alice">>,
      <<"https://", "instagram.com", "/", "alice">>,
      <<"https://", "twitter.com", "/", "alice">>,
      <<"https://", "twitter.com", "/", "share", QueryParam, "instagram.com">>,
      <<"https://", "netfli", "x.com", "/", "alice">>,
      <<"https://", "open.", "spotify.com", "/", "playlist", "/", "alice">>,
      <<"https://", "open.", "spotify.com", "/", "artist", "/", "alice">>,
      <<"https://", "www.", "tiktok.com", "/", "@", "alice", QueryParam, "alice">>,
      <<"https://", "discord.com", "/", "invite", "/", "alice">>,
      <<"https://", "example.com", "/", "alice">>,
      <<"http://", "example.com", "/", "user", "/", "alice">>,
      <<"instagram.com", "/", "alice">>,
      <<"example.com">>,
      Redirect(<<"https://", "instagram.com", "/", "alice">>),
      Redirect(<<"https://", "example.com", "/", "alice">>),
      Redirect(<<"https://", "discord.com", "/", "invite", "/", "alice">>),
      Redirect(<<"alice">>) }

InitSocial ==
    /\ pc = "social"
    /\ input \in { s \in SeqsUpTo(DiscoveredUrls, MaxUrls) :
                     \A i, j \in DOMAIN s : i # j => s[i] # s[j] }
    /\ output = << >>
    /\ PureCall

\* categorizeSocialUrls(allUrls)
CategorizeSocialUrls ==
    /\ pc = "social"
    /\ output' = << categorizeSocialUrls(input) >>
    /\ pc' = "categorized"
    /\ UNCHANGED <<input, error, response, attempt, errorType, decision, crawlVars, rateVars>>

NextSocial == CategorizeSocialUrls

SpecSocial == InitSocial /\ [][NextSocial]_vars

Buckets ==
    { "youtubeUrls", "instagramUrls", "twitterUrls", "facebookUrls", "linkedinUrls",
      "pinterestUrls", "redditUrls", "tumblrUrls", "twitchUrls", "onlyfansUrls",
      "soundcloudUrls", "discordUrls", "patreonUrls", "githubUrls", "tiktokUrls",
      "spotifyUrls", "websiteUrls" }

\* The URL (for TikTok: the URL without its query) is in the bucket.
Placed(url, bucket) ==
    \E i \in DOMAIN output[1][bucket] :
        \/ output[1][bucket][i] = url
        \/ bucket = "tiktokUrls" /\ output[1][bucket][i] = cleanUrl(url)

\* C19: every URL the categorizer sorted is in at most one bucket other than
\* the YouTube bucket.
C19_AtMostOneBucket ==
    pc = "categorized" =>
        \A i \in DOMAIN uniqueUrls(input) :
            Cardinality({ b \in Buckets \ {"youtubeUrls"} :
                            Placed(uniqueUrls(input)[i], b) }) <= 1

\* C20: the generic-website bucket holds exactly the sorted URLs that use
\* http or https, do not name the YouTube domain and are in no other bucket.
C20_WebsiteBucketIsTheRest ==
    pc = "categorized" =>
        \A i \in DOMAIN uniqueUrls(input) :
            LET url == uniqueUrls(input)[i]
            IN  Placed(url, "websiteUrls") <=>
                  /\ Head(url) \in {"http://", "https://"}
                  /\ ~includesText(url, <<"youtube.com">>)
                  /\ \A b \in Buckets \ {"youtubeUrls", "websiteUrls"} : ~Placed(url, b)

(***************************************************************************)
(* Count texts.  Here a string is a sequence of characters.  A count is    *)
(* [tenths, exp]: the number tenths/10 * 10^exp.                           *)
(***************************************************************************)
DigitChars == {"0", "1", "2", "3", "4", "5", "7"}

digitValue(c) ==
    CASE c = "0" -> 0 [] c = "1" -> 1 [] c = "2" -> 2 [] c = "3" -> 3
      [] c = "4" -> 4 [] c = "5" -> 5 [] c = "7" -> 7

toUpperCase(c) ==
    CASE c = "k" -> "K" [] c = "m" -> "M" [] c = "b" -> "B" [] c = "t" -> "T"
      [] c = "q" -> "Q" [] c = "z" -> "Z" [] OTHER -> c

\* NUMBER_MULTIPLIERS, as powers of ten; -1 stands for no entry
NUMBER_MULTIPLIERS(key) ==
    CASE key = "K" -> 3 [] key = "M" -> 6 [] key = "B" -> 9 [] key = "T" -> 12
      [] key = "Q" -> 15 [] OTHER -> -1

Count(tenths, exp) == [thrown |-> FALSE, nan |-> FALSE, tenths |-> tenths, exp |-> exp]
NotANumber == [thrown |-> FALSE, nan |-> TRUE, tenths |-> 0, exp |-> 0]
Zero == Count(0, 0)
UnhandledMultiplier == [thrown |-> TRUE, nan |-> FALSE, tenths |-> 0, exp |-> 0]

\* numStr.replace(/[^0-9,.]/g, '') and then .replace(/,/g, '')
extractNumber(numStr) == SelectSeq(numStr, LAMBDA c : c \in DigitChars \cup {",", "."})
withoutCommas(s)      == SelectSeq(s, LAMBDA c : c # ",")

\* The leading digits of s, as a number.
RECURSIVE leadingDigits(_, _)
leadingDigits(s, acc) ==
    IF s # << >> /\ Head(s) \in DigitChars
    THEN leadingDigits(Tail(s), 10 * acc + digitValue(Head(s)))
    ELSE acc

RECURSIVE afterDigits(_)
afterDigits(s) ==
    IF s # << >> /\ Head(s) \in DigitChars THEN afterDigits(Tail(s)) ELSE s

\* parseFloat(s) in tenths: the digits, then a point and the digit after it.
\* nan when s starts with neither a digit nor a point followed by a digit.
parseFloat(s) ==
    LET rest     == afterDigits(s)
        hasInt   == s # << >> /\ Head(s) \in DigitChars
        hasFrac  == Len(rest) >= 2 /\ rest[1] = "." /\ rest[2] \in DigitChars
    IN  [nan    |-> ~hasInt /\ ~hasFrac,
         tenths |-> 10 * leadingDigits(s, 0) + (IF hasFrac THEN digitValue(rest[2]) ELSE 0)]

\* Math.round(tenths / 10), in tenths
roundTenths(tenths) == 10 * ((tenths + 5) \div 10)

\* numStr.match(pattern)?.[0]: the first letter of `letters` (either case)
\* that stands after a digit or a blank; << >> when there is none
multiplierMatch(numStr, letters) ==
    LET hits == { i \in 2..Len(numStr) :
                    /\ toUpperCase(numStr[i]) \in letters
                    /\ numStr[i - 1] \in DigitChars \cup {" "} }
    IN  IF hits = {} THEN << >>
        ELSE << numStr[CHOOSE i \in hits : \A j \in hits : i <= j] >>

\* unformatNumbers(numStr) of the utility module
unformatNumbers(numStr) ==
    LET cleanedStr == extractNumber(numStr)
        number     == parseFloat(withoutCommas(cleanedStr))
        match      == multiplierMatch(numStr, {"M", "K", "B", "T", "Q"})
        multiplierKey == IF match = << >> THEN "" ELSE toUpperCase(match[1])
    IN  IF numStr = << >> THEN Zero
        ELSE IF cleanedStr = << >> THEN Zero
        ELSE IF number.nan THEN Zero
        ELSE IF multiplierKey # "" /\ NUMBER_MULTIPLIERS(multiplierKey) # -1
        THEN Count(number.tenths, NUMBER_MULTIPLIERS(multiplierKey))
        ELSE Count(roundTenths(number.tenths), 0)

\* unformatNumbers(numStr) of the earlier utility module: it matches the
\* letters m, k, b only, then switches on K, M, B, T, Q and throws otherwise.
legacy_unformatNumbers(numStr) ==
    LET numberMatch == extractNumber(numStr)
        number      == parseFloat(withoutCommas(numberMatch))
        match       == multiplierMatch(numStr, {"M", "K", "B"})
        multiplier  == toUpperCase(match[1])
    IN  IF numberMatch = << >> THEN Zero
        ELSE IF number.nan THEN NotANumber
        ELSE IF match # << >>
        THEN IF NUMBER_MULTIPLIERS(multiplier) # -1
             THEN Count(number.tenths, NUMBER_MULTIPLIERS(multiplier))
             ELSE UnhandledMultiplier
        ELSE Count(number.tenths, 0)

Numerals ==
    { << >>, <<"7">>, <<"1", "2">>, <<"1", ".", "5">>, <<"4", ".", "7">>,
      <<"1", ",", "2", "3", "4">>, <<"3">>, <<".">> }

Suffixes ==
    { << >>, <<"K">>, <<"k">>, <<"M">>, <<"m">>, <<"B">>, <<"T">>, <<"Q">>, <<"Z">>,
      <<"z">> }

Words ==
    { << >>,
      <<" ", "s", "u", "b", "s", "c", "r", "i", "b", "e", "r", "s">>,
      <<" ", "v", "i", "e", "w", "s">>,
      <<" ", "t", "o", "t", "a", "l">>,
      <<" ", "m", "e", "m", "b", "e", "r", "s">>,
      <<"s", "u", "b", "s">> }

CountTexts == [numeral : Numerals, suffix : Suffixes, words : Words]

textOf(t) == t.numeral \o t.suffix \o t.words

InitCount ==
    /\ pc = "count"
    /\ input \in { << t >> : t \in CountTexts }
    /\ output = << >>
    /\ PureCall

\* utils.unformatNumbers(text)
UnformatNumbers ==
    /\ pc = "count"
    /\ output' = << unformatNumbers(textOf(input[1])) >>
    /\ pc' = "counted"
    /\ UNCHANGED <<input, error, response, attempt, errorType, decision, crawlVars, rateVars>>

\* The earlier module's unformatNumbers(text)
LegacyUnformatNumbers ==
    /\ pc = "count"
    /\ output' = << legacy_unformatNumbers(textOf(input[1])) >>
    /\ pc' = "countedLegacy"
    /\ UNCHANGED <<input, error, response, attempt, errorType, decision, crawlVars, rateVars>>

NextCount == UnformatNumbers \/ LegacyUnformatNumbers

SpecCount == InitCount /\ [][NextCount]_vars

\* The number a numeral of the count texts denotes, in tenths.
NumeralTenths(numeral) ==
    CASE numeral = <<"7">>                     -> 70
      [] numeral = <<"1", "2">>                -> 120
      [] numeral = <<"1", ".", "5">>           -> 15
      [] numeral = <<"4", ".", "7">>           -> 47
      [] numeral = <<"1", ",", "2", "3", "4">> -> 12340
      [] numeral = <<"3">>                     -> 30
      [] OTHER                                 -> 0

HasDigits(numeral) == \E i \in DOMAIN numeral : numeral[i] \in DigitChars

\* C21: a numeral directly followed by K, M, B, T or Q (either case) gives
\* the number times 10^3, 10^6, 10^9, 10^12, 10^15; a numeral followed by no
\* letter gives the (rounded) number itself, whatever words follow after a
\* blank; a text without digits gives 0.
C21_NumberTimesMultiplier ==
    pc = "counted" =>
        LET t == input[1]
        IN  /\ ~HasDigits(t.numeral) => output[1] = Zero
            /\ (HasDigits(t.numeral) /\ t.suffix # << >>
                  /\ NUMBER_MULTIPLIERS(toUpperCase(t.suffix[1])) # -1) =>
                  output[1] = Count(NumeralTenths(t.numeral),
                                    NUMBER_MULTIPLIERS(toUpperCase(t.suffix[1])))
            /\ (HasDigits(t.numeral) /\ t.suffix = << >>) =>
                  output[1] = Count(roundTenths(NumeralTenths(t.numeral)), 0)

\* C22: a numeral directly followed by a letter that is no multiplier makes
\* unformatNumbers throw.
C22_UnknownMultiplierThrows ==
    (pc \in {"counted", "countedLegacy"}
       /\ HasDigits(input[1].numeral)
       /\ input[1].suffix # << >>
       /\ NUMBER_MULTIPLIERS(toUpperCase(input[1].suffix[1])) = -1) =>
        output[1].thrown

(***************************************************************************)
(* Extraction from one channel page: the structured data object            *)
(* (ytInitialData) read first, the DOM queried by each extractor, the      *)
(* debug and error snapshots, and the record pushed to the dataset.        *)
(***************************************************************************)
\* Texts of the two layers; a channel name may also come as an object
\* { simpleText }.
MetaText   == <<"m">>
DomText    == <<"d">>
ObjectName == <<"{simpleText}", "m">>
MetaCount  == <<"1", "K">>
DomCount   == <<"2", "K", " ", "s", "u", "b", "s", "c", "r", "i", "b", "e", "r", "s">>
DomVideos  == <<"2", "5">>
Rejected   == <<"<rejected>">>       \* a DOM query whose promise rejects

\* extractChannelMetadata(ytData): what the data object yields per field
Metadata ==
    [channelName     : {<< >>, MetaText, ObjectName},
     subscriberCount : {<< >>, MetaCount},
     videoCount      : {<< >>, MetaCount},
     joinedDate      : {<< >>, MetaText},
     viewCount       : {<< >>, MetaCount},
     location        : {<< >>, MetaText},
     description     : {<< >>, MetaText}]

\* What the DOM queries of extractBasicInfo resolve to ('' or null when
\* nothing is found).
BasicDom ==
    [channelName     : {<< >>, DomText, Rejected},
     subscriberCount : {<< >>, DomCount},
     videoCount      : {<< >>, DomVideos}]

\* What the DOM queries of extractDetailedInfo resolve to.
DetailedDom ==
    [joinedDate  : {<< >>, DomText, Rejected},
     viewCount   : {<< >>, DomVideos},
     location    : {<< >>, DomText},
     description : {<< >>, DomText}]

\* a || b
or(a, b) == IF a # << >> THEN a ELSE b

\* promise.catch(() => fallback)
catch(result, fallback) == IF result = Rejected THEN fallback ELSE result

\* extractBasicInfo(page, ytData)
extractBasicInfo(metadata, dom) ==
    LET channelName     == IF dom.channelName = Rejected THEN metadata.channelName
                           ELSE or(dom.channelName, metadata.channelName)
        subscriberCount == or(dom.subscriberCount, metadata.subscriberCount)
        videoCount      == dom.videoCount
        name            == or(channelName, metadata.channelName)
        cleanChannelName == IF name # << >> /\ Head(name) = "{simpleText}"
                            THEN Tail(name) ELSE name
    IN  [channelName |-> or(cleanChannelName, <<"Unknown Channel">>),
         channelSubscriberCount |->
            IF subscriberCount # << >> THEN unformatNumbers(subscriberCount) ELSE Zero,
         channelVideosCount |->
            IF videoCount # << >> THEN unformatNumbers(videoCount)
            ELSE IF metadata.videoCount # << >> THEN unformatNumbers(metadata.videoCount)
            ELSE Zero]

\* extractDetailedInfo(page, metadata)
extractDetailedInfo(metadata, dom) ==
    LET joinedDate         == or(metadata.joinedDate, catch(dom.joinedDate, << >>))
        totalViewCount     == or(metadata.viewCount, dom.viewCount)
        channelLocation    == or(metadata.location, dom.location)
        channelDescription == or(metadata.description, dom.description)
    IN  [joinedDate |-> joinedDate,
         totalViewCount |->
            IF totalViewCount # << >> THEN unformatNumbers(totalViewCount) ELSE Zero,
         channelLocation |-> channelLocation,
         channelDescription |-> channelDescription]

\* What the badge lookup of extractVerificationStatus finds on the page.
Badges == { "Verified", "Official Artist Channel", "<aria-label Verified>", "<none>",
            "<rejected>" }

\* extractVerificationStatus(page); "<null>" stands for null
extractVerificationStatus(badge) ==
    CASE badge = "<rejected>"              -> "<null>"
      [] badge = "<none>"                  -> "<null>"
      [] badge = "<aria-label Verified>"   -> "Verified"
      [] OTHER                             -> badge

\* Errors the handler can meet after the page has loaded.
SnapshotError == "Failed to save screenshot"
EvaluateError == "Execution context was destroyed"

NoBasicInfo    == [channelName |-> << >>, channelSubscriberCount |-> Zero,
                   channelVideosCount |-> Zero]
NoDetailedInfo == [joinedDate |-> << >>, totalViewCount |-> Zero,
                   channelLocation |-> << >>, channelDescription |-> << >>]

\* The handler's progress: what it has extracted, the record it pushed (a
\* sequence of length 0 or 1), and the error it caught and threw.
Progress ==
    [basicInfo |-> NoBasicInfo, detailedInfo |-> NoDetailedInfo, badge |-> "<none>",
     pushed |-> << >>, caught |-> "", thrown |-> "", errorSnapshotFailed |-> FALSE]

InitPage ==
    /\ pc = "page"
    /\ input \in { << metadata >> : metadata \in Metadata }
    /\ output = << Progress >>
    /\ PureCall

\* await utils.saveSnapshot(page, `DEBUG-...`), which rethrows its failure,
\* then the page.evaluate that collects debug information.
InspectPage ==
    /\ pc = "page"
    /\ \E failure \in {"", SnapshotError, EvaluateError} :
          IF failure = ""
          THEN pc' = "extractBasic" /\ UNCHANGED output
          ELSE /\ pc' = "catch"
               /\ output' = << [output[1] EXCEPT !.caught = failure] >>
    /\ UNCHANGED <<input, error, response, attempt, errorType, decision, crawlVars, rateVars>>

\* const basicInfo = await extractBasicInfo(page, ytData)
ExtractBasicInfo ==
    /\ pc = "extractBasic"
    /\ \E dom \in BasicDom :
          output' = << [output[1] EXCEPT !.basicInfo = extractBasicInfo(input[1], dom)] >>
    /\ pc' = "extractDetailed"
    /\ UNCHANGED <<input, error, response, attempt, errorType, decision, crawlVars, rateVars>>

\* const detailedInfo = await extractDetailedInfo(page, basicInfo.metadata)
ExtractDetailedInfo ==
    /\ pc = "extractDetailed"
    /\ \E dom \in DetailedDom :
          output' = << [output[1] EXCEPT
                          !.detailedInfo = extractDetailedInfo(input[1], dom)] >>
    /\ pc' = "verify"
    /\ UNCHANGED <<input, error, response, attempt, errorType, decision, crawlVars, rateVars>>

\* extractVerificationStatus, the channelData object and Actor.pushData
PushChannelData ==
    /\ pc = "verify"
    /\ \E badge \in Badges :
          output' = << [output[1] EXCEPT
                          !.badge = badge,
                          !.pushed = << [channelName |-> output[1].basicInfo.channelName,
                                         channelSubscriberCount |->
                                             output[1].basicInfo.channelSubscriberCount,
                                         channelVideosCount |->
                                             output[1].basicInfo.channelVideosCount,
                                         joinedDate |-> output[1].detailedInfo.joinedDate,
                                         totalViewCount |->
                                             output[1].detailedInfo.totalViewCount,
                                         channelLocation |->
                                             output[1].detailedInfo.channelLocation,
                                         channelDescription |->
                                             output[1].detailedInfo.channelDescription,
                                         verifiedCategory |->
                                             extractVerificationStatus(badge)] >>] >>
    /\ pc' = "pushed"
    /\ UNCHANGED <<input, error, response, attempt, errorType, decision, crawlVars, rateVars>>

\* The catch block: an error snapshot whose failure is swallowed, then
\* throw error.
CatchAndThrow ==
    /\ pc = "catch"
    /\ \E snapshotFails \in BOOLEAN :
          output' = << [output[1] EXCEPT !.thrown = output[1].caught,
                                         !.errorSnapshotFailed = snapshotFails] >>
    /\ pc' = "thrown"
    /\ UNCHANGED <<input, error, response, attempt, errorType, decision, crawlVars, rateVars>>

NextPage ==
    \/ InspectPage \/ ExtractBasicInfo \/ ExtractDetailedInfo
    \/ PushChannelData \/ CatchAndThrow

SpecPage == InitPage /\ [][NextPage]_vars

\* C23: for each of the seven fields, when the structured data object gives
\* a non-empty value the pushed record holds that value (converted to a
\* number for the counts); otherwise it holds a value of the DOM or the
\* field's default.
C23_StructuredDataFirst ==
    pc = "pushed" =>
        LET metadata == input[1]
            record   == output[1].pushed[1]
            name     == IF metadata.channelName = ObjectName THEN MetaText
                        ELSE metadata.channelName
        IN  /\ name # << >> => record.channelName = name
            /\ metadata.subscriberCount # << >> =>
                  record.channelSubscriberCount = unformatNumbers(metadata.subscriberCount)
            /\ metadata.videoCount # << >> =>
                  record.channelVideosCount = unformatNumbers(metadata.videoCount)
            /\ metadata.joinedDate # << >> => record.joinedDate = metadata.joinedDate
            /\ metadata.viewCount # << >> =>
                  record.totalViewCount = unformatNumbers(metadata.viewCount)
            /\ metadata.location # << >> => record.channelLocation = metadata.location
            /\ metadata.description # << >> =>
                  record.channelDescription = metadata.description
            /\ name = << >> => record.channelName \in {DomText, <<"Unknown Channel">>}
            /\ metadata.joinedDate = << >> => record.joinedDate \in {DomText, << >>}

\* C24: the verification category of a pushed record is never null; it is
\* "unknown" when no badge was found or the lookup failed.
C24_CategoryIsNeverNull ==
    pc = "pushed" =>
        /\ output[1].pushed[1].verifiedCategory # "<null>"
        /\ output[1].badge \in {"<none>", "<rejected>"} =>
              output[1].pushed[1].verifiedCategory = "unknown"

\* C27: the error the handler throws is never the failure of a snapshot, and
\* a handler that met no error other than a failed snapshot pushes its record.
C27_SnapshotFailureIsHarmless ==
    /\ output[1].thrown # SnapshotError
    /\ (pc = "thrown" /\ output[1].caught # EvaluateError) => output[1].pushed # << >>

\* The rows of the CSV content the run was given, as validateInput passes
\* them on.
CsvRecords ==
    IF output # << >> /\ output[1].validation.sanitizedInput.csvContent.type = "string"
    THEN output[1].validation.sanitizedInput.csvContent.items
    ELSE << >>

\* The URLs of the rows that can be turned into a channel URL.
GoodRowUrls ==
    { extractChannelUrl(CsvRecords[i], i - 1)[1].url :
        i \in { j \in DOMAIN CsvRecords :
                  /\ extractChannelUrl(CsvRecords[j], j - 1) # << >>
                  /\ extractChannelUrl(CsvRecords[j], j - 1)[1].url # Thrown } }

\* C26: parseCSV never fails on its rows, and returns the URL of every row
\* that can be turned into a channel URL, whatever the other rows hold.
C26_MalformedRowsAreSkipped ==
    pc = "inputValidated" =>
        /\ ~parseCSV(CsvRecords).thrown
        /\ \A u \in GoodRowUrls :
              \E k \in DOMAIN parseCSV(CsvRecords).urls : parseCSV(CsvRecords).urls[k].url = u

(***************************************************************************)
(* Claims about the number of attempts (checked under SpecCrawl).          *)
(***************************************************************************)
\* The number of the attempt worker w is making on its request's URL: the
\* initial request is attempt 1, and every retry request carries the
\* retryCount of the request it replaces plus one.
AttemptNumber(w) == workers[w][1].request.retryCount + 1

\* C25: no URL is attempted more than maxRequestRetries + 1 times.
C25_AttemptsBoundedByOption ==
    \A w \in Workers : workers[w] # << >> => AttemptNumber(w) <= maxRequestRetries + 1

\* The crawl under fair scheduling: as long as something can run (a free
\* slot and a queued request, a running handler, a pending timer, the
\* resolution of crawler.run()), the event loop runs one of them.  No
\* behaviour takes infinitely many steps (attempts per URL are bounded and
\* every step consumes a request, a handler, a timer or time), so this is
\* as strong as fairness of every single action.
FairCrawl == SpecCrawl /\ WF_vars(NextCrawl)

\* An attempt on URL u ends in this step with its record pushed.
EmitsRecord(u) ==
    \E w \in Workers :
        /\ HandlerReturns(w)
        /\ workers[w][1].request.url = u
        /\ handlePageFunction(workers[w][1].page).pushed

\* An attempt on URL u fails in this step and no retry is scheduled.
FailsPermanently(u) ==
    \E w \in Workers :
        /\ HandlerReturns(w)
        /\ workers[w][1].request.url = u
        /\ ~handlePageFunction(workers[w][1].page).returned
        /\ timers' = timers

\* An attempt on URL u ends in this step and schedules no retry.
LastAttempt(u) ==
    \E w \in Workers :
        HandlerReturns(w) /\ workers[w][1].request.url = u /\ timers' = timers

\* A request for URL u is waiting in the queue, running, or due on a timer.
Pending(u) == AttemptsInFlight(u) + QueuedFor(u) + TimersFor(u) > 0

\* C28: the retry a failed attempt schedules carries the failed request's
\* retryCount plus one, whatever the category of the failure; no URL is
\* attempted more than 6 times; an attempt that schedules no retry has
\* pushed the record or failed permanently; and under fair scheduling every
\* URL is eventually left with no request waiting, running or due, and the
\* crawl terminates.
C28_BoundedRetriesAndTermination ==
    /\ [][\A w \in Workers :
            HandlerReturns(w) =>
                \A t \in timers' \ timers :
                    t.request.retryCount = workers[w][1].request.retryCount + 1]_vars
    /\ [](\A w \in Workers : workers[w] # << >> => AttemptNumber(w) <= 6)
    /\ [][\A u \in Urls : LastAttempt(u) => (EmitsRecord(u) \/ FailsPermanently(u))]_vars
    /\ \A u \in Urls : <>[](~Pending(u))
    /\ <>crawlDone

(***************************************************************************)
(* The crawl of two channels of which one's URL is the other's followed by *)
(* '-retry-1' (handles may hold letters, digits and hyphens).              *)
(***************************************************************************)
RetryNamedUrl == ChannelUrl(1) \o <<"-retry-", "1">>

InitKeys ==
    /\ queue \in { << InitialRequest(ChannelUrl(1)), InitialRequest(RetryNamedUrl) >>,
                   << InitialRequest(RetryNamedUrl), InitialRequest(ChannelUrl(1)) >> }
    /\ seenKeys = { ChannelUrl(1), RetryNamedUrl }
    /\ workers = [w \in Workers |-> << >>]
    /\ timers = {}
    /\ dataset = <<>>
    /\ failedLog = <<>>
    /\ processedCount = 0
    /\ recorded = << >>
    /\ crawlDone = FALSE
    /\ RetryUnused
    /\ RateUnused
    /\ CallUnused

SpecKeys == InitKeys /\ [][NextCrawl]_vars

\* The uniqueKey '<url>-retry-<attempt>'.
RetryKey(url, n) == url \o <<"-retry-", ToString(n)>>

\* C29: the retry request scheduled for a failed request carries the
\* uniqueKey '<url>-retry-<attempt>', which differs from the URL's original
\* key and from the key of every earlier retry of that URL; and the queue
\* accepts every retry request whose timer fires, placing it at the front.
C29_RetryKeysAreNeverDropped ==
    /\ [][\A w \in Workers :
            HandlerReturns(w) =>
                \A t \in timers' \ timers :
                    LET url == workers[w][1].request.url
                    IN  /\ t.request.uniqueKey = RetryKey(url, t.request.retryCount)
                        /\ t.request.uniqueKey # url
                        /\ \A k \in 1..(t.request.retryCount - 1) :
                              t.request.uniqueKey # RetryKey(url, k)]_vars
    /\ [][\A t \in timers :
            (t.remaining = 0 /\ t \notin timers') => queue' = <<t.request>> \o queue]_vars

\* The concurrency options handed to PuppeteerCrawler: the sanitized values,
\* or the defaults of the orchestrator's destructuring.
crawlerOptions(sanitized) ==
    [minConcurrency |-> optionOr(sanitized.numbers, "minConcurrency", 1),
     maxConcurrency |-> optionOr(sanitized.numbers, "maxConcurrency", 1)]

\* C30: for every input validateInput accepts, the crawler is given
\* 1 <= minConcurrency <= maxConcurrency <= 100.
C30_ConcurrencyBoundsOrdered ==
    (pc = "enqueued" /\ output[1].validation.valid) =>
        LET options == crawlerOptions(output[1].validation.sanitizedInput)
        IN  /\ 1 <= options.minConcurrency
            /\ options.minConcurrency <= options.maxConcurrency
            /\ options.maxConcurrency <= 100

====
